---- MODULE Spec2Model ----
(***************************************************************************)
(* Model of the Austrian e-invoice service (package main): the compliance  *)
(* codec validateInvoice -> TransformToEbInterface and the generateHandler *)
(* that drives it.                                                         *)
(*                                                                         *)
(* Go's int64 and float64 are modelled at their real width.  TLC integers  *)
(* are 32 bits wide, so a 64-bit quantity is a little-endian sequence of   *)
(* 15-bit limbs without trailing zero limbs (<<>> is 0).  An int64 is its  *)
(* two's-complement bit pattern, a natural number below 2^64.  A float64   *)
(* is [neg, m, e] standing for (-1)^neg * m * 2^e with m <= 2^53; every    *)
(* float operation rounds to 53 significant bits, ties to even, as IEEE    *)
(* 754 binary64 does.                                                      *)
(***************************************************************************)
EXTENDS Integers, Sequences, FiniteSets, TLC

----------------------------------------------------------------------------
(* Natural numbers of arbitrary size.                                      *)

LimbBits == 15
Limb == 2^LimbBits

RECURSIVE NNorm(_)
NNorm(a) ==
    IF a = <<>> THEN <<>>
    ELSE IF a[Len(a)] = 0 THEN NNorm(SubSeq(a, 1, Len(a) - 1))
    ELSE a

RECURSIVE NOfInt(_)
NOfInt(n) == IF n = 0 THEN <<>> ELSE <<n % Limb>> \o NOfInt(n \div Limb)

NLimb(a, i) == IF i <= Len(a) THEN a[i] ELSE 0

RECURSIVE NAddC(_, _, _, _)
NAddC(a, b, i, c) ==
    IF i > Len(a) /\ i > Len(b)
    THEN (IF c = 0 THEN <<>> ELSE <<c>>)
    ELSE LET s == NLimb(a, i) + NLimb(b, i) + c
         IN  <<s % Limb>> \o NAddC(a, b, i + 1, s \div Limb)

NAdd(a, b) == NAddC(a, b, 1, 0)

\* a - b for a >= b
RECURSIVE NSubB(_, _, _, _)
NSubB(a, b, i, br) ==
    IF i > Len(a) THEN <<>>
    ELSE LET d == a[i] - NLimb(b, i) - br
         IN  IF d < 0 THEN <<d + Limb>> \o NSubB(a, b, i + 1, 1)
                      ELSE <<d>> \o NSubB(a, b, i + 1, 0)

NSub(a, b) == NNorm(NSubB(a, b, 1, 0))

\* a * k for 0 <= k < Limb
RECURSIVE NMulSmallC(_, _, _, _)
NMulSmallC(a, k, i, c) ==
    IF i > Len(a)
    THEN (IF c = 0 THEN <<>> ELSE <<c>>)
    ELSE LET s == a[i] * k + c
         IN  <<s % Limb>> \o NMulSmallC(a, k, i + 1, s \div Limb)

NMulSmall(a, k) == IF k = 0 THEN <<>> ELSE NMulSmallC(a, k, 1, 0)

NShiftLimbs(a, n) == IF a = <<>> THEN <<>> ELSE [i \in 1..n |-> 0] \o a

RECURSIVE NMulFrom(_, _, _)
NMulFrom(a, b, i) ==
    IF i > Len(b) THEN <<>>
    ELSE NAdd(NShiftLimbs(NMulSmall(a, b[i]), i - 1), NMulFrom(a, b, i + 1))

NMul(a, b) == NMulFrom(a, b, 1)

\* remainder of the limbs i..Len(a) of a by d, 0 < d < Limb
RECURSIVE NRemFrom(_, _, _)
NRemFrom(a, d, i) ==
    IF i > Len(a) THEN 0 ELSE (NRemFrom(a, d, i + 1) * Limb + a[i]) % d

\* quotient and remainder of a by d, 0 < d < Limb (long division from the top)
NDivSmall(a, d) ==
    NNorm([i \in 1..Len(a) |-> (NRemFrom(a, d, i + 1) * Limb + a[i]) \div d])
NModSmall(a, d) == NRemFrom(a, d, 1)

\* -1, 0, 1 as a < b, a = b, a > b
RECURSIVE NCmpFrom(_, _, _)
NCmpFrom(a, b, i) ==
    IF i = 0 THEN 0
    ELSE IF a[i] < b[i] THEN -1
    ELSE IF a[i] > b[i] THEN 1
    ELSE NCmpFrom(a, b, i - 1)

NCmp(a, b) ==
    IF Len(a) < Len(b) THEN -1
    ELSE IF Len(a) > Len(b) THEN 1
    ELSE NCmpFrom(a, b, Len(a))

NPow2(n) == NShiftLimbs(<<2^(n % LimbBits)>>, n \div LimbBits)

NShl(a, n) == NShiftLimbs(NMulSmall(a, 2^(n % LimbBits)), n \div LimbBits)

NShr(a, n) ==
    LET k == n \div LimbBits
    IN  IF k >= Len(a) THEN <<>>
        ELSE NDivSmall(SubSeq(a, k + 1, Len(a)), 2^(n % LimbBits))

\* a mod 2^n
NLowBits(a, n) ==
    LET k == n \div LimbBits
    IN  IF k >= Len(a) THEN a
        ELSE NNorm(SubSeq(a, 1, k) \o <<a[k + 1] % 2^(n % LimbBits)>>)

RECURSIVE BitLenInt(_)
BitLenInt(n) == IF n = 0 THEN 0 ELSE 1 + BitLenInt(n \div 2)

NBitLen(a) ==
    IF a = <<>> THEN 0 ELSE LimbBits * (Len(a) - 1) + BitLenInt(a[Len(a)])

\* decimal digits of a, most significant first ("0" for zero)
Digit(d) == CASE d = 0 -> "0" [] d = 1 -> "1" [] d = 2 -> "2" [] d = 3 -> "3"
              [] d = 4 -> "4" [] d = 5 -> "5" [] d = 6 -> "6" [] d = 7 -> "7"
              [] d = 8 -> "8" [] d = 9 -> "9"

RECURSIVE NDigits(_)
NDigits(a) ==
    IF NCmp(a, NOfInt(10)) < 0 THEN <<Digit(NModSmall(a, 10))>>
    ELSE NDigits(NDivSmall(a, 10)) \o <<Digit(NModSmall(a, 10))>>

----------------------------------------------------------------------------
(* int64: two's-complement patterns below 2^64.                            *)

Int64Bits == 64
Two64 == NPow2(Int64Bits)
Two63 == NPow2(Int64Bits - 1)

I64Wrap(n) == NLowBits(n, Int64Bits)
I64Neg(x) == NCmp(x, Two63) >= 0
I64Abs(x) == IF I64Neg(x) THEN NSub(Two64, x) ELSE x
I64OfInt(n) == IF n >= 0 THEN NOfInt(n) ELSE NSub(Two64, NOfInt(-n))
I64OfSigned(neg, mag) == IF neg /\ mag # <<>> THEN NSub(Two64, mag) ELSE mag
I64Add(x, y) == I64Wrap(NAdd(x, y))
I64Mul(x, y) == I64Wrap(NMul(x, y))
\* x < y, x <= y as signed values
I64Less(x, y) ==
    IF I64Neg(x) # I64Neg(y) THEN I64Neg(x) ELSE NCmp(x, y) < 0
I64Zero == <<>>

----------------------------------------------------------------------------
(* float64.                                                                *)

MantBits == 53

\* [m, e] nearest to n * 2^e (plus a non-zero tail below n when sticky),
\* ties to even
FRound(neg, n, e, sticky) ==
    LET s == NBitLen(n) - MantBits
    IN  IF s <= 0 THEN [neg |-> neg, m |-> n, e |-> e]
        ELSE LET hi   == NShr(n, s)
                 lo   == NLowBits(n, s)
                 half == NPow2(s - 1)
                 c    == NCmp(lo, half)
                 up   == \/ c > 0
                         \/ c = 0 /\ sticky
                         \/ c = 0 /\ ~sticky /\ NModSmall(hi, 2) = 1
             IN  [neg |-> neg,
                  m   |-> IF up THEN NAdd(hi, NOfInt(1)) ELSE hi,
                  e   |-> e + s]

\* float64(x) for an int64 x
FOfInt64(x) == FRound(I64Neg(x), I64Abs(x), 0, FALSE)

\* f * r for a float64 r holding the integer r, 0 <= r < Limb
FMulInt(f, r) == FRound(f.neg, NMulSmall(f.m, r), f.e, FALSE)

\* f / 100.0, correctly rounded: the quotient keeps 64 extra bits
DivGuardBits == 64
FDiv100(f) ==
    LET n == NShl(f.m, DivGuardBits)
    IN  FRound(f.neg, NDivSmall(n, 100), f.e - DivGuardBits,
               NModSmall(n, 100) # 0)

\* math.Round: nearest integer, halves away from zero; [neg, mag]
MathRound(f) ==
    IF f.e >= 0 THEN [neg |-> f.neg, mag |-> NShl(f.m, f.e)]
    ELSE LET s  == -f.e
             hi == NShr(f.m, s)
             lo == NLowBits(f.m, s)
         IN  [neg |-> f.neg,
              mag |-> IF NCmp(lo, NPow2(s - 1)) >= 0
                      THEN NAdd(hi, NOfInt(1)) ELSE hi]

\* int64(v) for an integral v inside the int64 range
Int64OfRounded(v) == I64OfSigned(v.neg, v.mag)

\* fmt.Sprintf("%.2f", f): the exact value of f rounded to two decimals,
\* ties to even, as characters
TwoDigits(n) == <<Digit(n \div 10), Digit(n % 10)>>

Sprintf2f(f) ==
    LET n  == NMulSmall(f.m, 100)
        s  == -f.e
        hi == NShr(n, s)
        c  == NCmp(NLowBits(n, s), NPow2(s - 1))
        h  == IF f.e >= 0 THEN NShl(n, f.e)
              ELSE IF c > 0 \/ (c = 0 /\ NModSmall(hi, 2) = 1)
                   THEN NAdd(hi, NOfInt(1)) ELSE hi
    IN  (IF f.neg THEN <<"-">> ELSE <<>>)
        \o NDigits(NDivSmall(h, 100)) \o <<".">> \o TwoDigits(NModSmall(h, 100))

\* formatCentsAsDecimal converts cents (int64) to a decimal string
formatCentsAsDecimal(cents) == Sprintf2f(FDiv100(FOfInt64(cents)))

----------------------------------------------------------------------------
(* Input validation.  Strings that the code only tests for emptiness are   *)
(* TLA+ strings; strings it parses or matches (dates, VAT ids, IBAN, BIC,  *)
(* API keys) are sequences of one-character strings.                       *)

DigitChars == {"0", "1", "2", "3", "4", "5", "6", "7", "8", "9"}
UpperChars == {"A", "B", "C", "D", "E", "F", "G", "H", "I", "J", "K", "L", "M",
               "N", "O", "P", "Q", "R", "S", "T", "U", "V", "W", "X", "Y", "Z"}

DigitVal(c) == CHOOSE d \in 0..9 : Digit(d) = c
AllIn(str, from, to, chars) == \A i \in from..to : str[i] \in chars

\* an error value: the message and, for a line item rule, the index that
\* fmt.Errorf puts in the place of %d
Err(msg, idx) == [msg |-> msg, idx |-> idx]
Nil == Err("", -1)

IsLeap(y) == (y % 4 = 0 /\ y % 100 # 0) \/ y % 400 = 0
DaysIn(m, y) ==
    IF m = 2 THEN (IF IsLeap(y) THEN 29 ELSE 28)
    ELSE IF m \in {4, 6, 9, 11} THEN 30 ELSE 31

\* time.Parse("2006-01-02", dateStr) succeeds
validateDate(dateStr) ==
    /\ Len(dateStr) = 10
    /\ AllIn(dateStr, 1, 4, DigitChars)
    /\ dateStr[5] = "-"
    /\ AllIn(dateStr, 6, 7, DigitChars)
    /\ dateStr[8] = "-"
    /\ AllIn(dateStr, 9, 10, DigitChars)
    /\ LET y == 1000 * DigitVal(dateStr[1]) + 100 * DigitVal(dateStr[2])
                + 10 * DigitVal(dateStr[3]) + DigitVal(dateStr[4])
           m == 10 * DigitVal(dateStr[6]) + DigitVal(dateStr[7])
           d == 10 * DigitVal(dateStr[9]) + DigitVal(dateStr[10])
       IN  m \in 1..12 /\ d >= 1 /\ d <= DaysIn(m, y)

\* vatIDRegex = ^ATU\d{8}$
validateVATID(vatID) ==
    /\ Len(vatID) = 11
    /\ SubSeq(vatID, 1, 3) = <<"A", "T", "U">>
    /\ AllIn(vatID, 4, 11, DigitChars)

\* validateBIC with the pattern ^[A-Z0-9]{8}([A-Z0-9]{3})?$
validateBICAlnum(bic) ==
    /\ Len(bic) \in {8, 11}
    /\ AllIn(bic, 1, Len(bic), UpperChars \cup DigitChars)

\* bicRegex = ^[A-Z]{4}[A-Z]{2}[A-Z0-9]{2}([A-Z0-9]{3})?$
validateBIC(bic) ==
    /\ Len(bic) \in {8, 11}
    /\ AllIn(bic, 1, 6, UpperChars)
    /\ AllIn(bic, 7, Len(bic), UpperChars \cup DigitChars)

\* strings.ReplaceAll(iban, " ", "")
RECURSIVE RemoveSpaces(_)
RemoveSpaces(str) ==
    IF str = <<>> THEN <<>>
    ELSE IF Head(str) = " " THEN RemoveSpaces(Tail(str))
    ELSE <<Head(str)>> \o RemoveSpaces(Tail(str))

\* ibanRegex = ^AT\d{2}\d{16}$, matched after the spaces are removed
validateIBAN(iban) ==
    LET stripped == RemoveSpaces(iban)
    IN  /\ Len(stripped) = 20
        /\ SubSeq(stripped, 1, 2) = <<"A", "T">>
        /\ AllIn(stripped, 3, 20, DigitChars)

\* validateItems without the rule on the tax rate
RECURSIVE validateItemsNoRate(_, _)
validateItemsNoRate(items, i) ==
    IF i >= Len(items) THEN Nil
    ELSE LET d == items[i + 1]
         IN  IF ~I64Less(I64Zero, d.Quantity)
             THEN Err("items[%d].quantity must be > 0", i)
             ELSE IF d.Description = ""
             THEN Err("items[%d].description is required", i)
             ELSE IF I64Less(d.UnitPriceCents, I64Zero)
             THEN Err("items[%d].unit_price_cents must be >= 0", i)
             ELSE validateItemsNoRate(items, i + 1)

\* validateItems with the tax rate of an item checked before its quantity
RECURSIVE validateItemsRateFirst(_, _)
validateItemsRateFirst(items, i) ==
    IF i >= Len(items) THEN Nil
    ELSE LET d == items[i + 1]
         IN  IF d.TaxRate < 0 \/ d.TaxRate > 100
             THEN Err("items[%d].tax_rate must be between 0 and 100", i)
             ELSE IF ~I64Less(I64Zero, d.Quantity)
             THEN Err("items[%d].quantity must be > 0", i)
             ELSE IF d.Description = ""
             THEN Err("items[%d].description is required", i)
             ELSE IF I64Less(d.UnitPriceCents, I64Zero)
             THEN Err("items[%d].unit_price_cents must be >= 0", i)
             ELSE validateItemsRateFirst(items, i + 1)

\* the first line item rule violated at or after index i (0-based, as the
\* code reports it), or Nil
RECURSIVE validateItems(_, _)
validateItems(items, i) ==
    IF i >= Len(items) THEN Nil
    ELSE LET d == items[i + 1]
         IN  IF ~I64Less(I64Zero, d.Quantity)
             THEN Err("items[%d].quantity must be > 0", i)
             ELSE IF d.Description = ""
             THEN Err("items[%d].description is required", i)
             ELSE IF I64Less(d.UnitPriceCents, I64Zero)
             THEN Err("items[%d].unit_price_cents must be >= 0", i)
             ELSE IF d.TaxRate < 0 \/ d.TaxRate > 100
             THEN Err("items[%d].tax_rate must be between 0 and 100", i)
             ELSE validateItems(items, i + 1)

validateInvoice(inv) ==
    IF inv.InvoiceNumber = ""
    THEN Err("invoice_number is required", -1)
    ELSE IF inv.InvoiceDate = <<>>
    THEN Err("invoice_date is required", -1)
    ELSE IF ~validateDate(inv.InvoiceDate)
    THEN Err("invoice_date: date must be in YYYY-MM-DD format", -1)
    ELSE IF inv.Biller.Name = "" \/ inv.Biller.VATID = <<>>
    THEN Err("biller.name and biller.vat_id are required", -1)
    ELSE IF ~validateVATID(inv.Biller.VATID)
    THEN Err("biller.vat_id: vat_id must be in format ATU followed by 8 digits (e.g., ATU13585627)", -1)
    ELSE IF inv.Biller.Address.Street = "" \/ inv.Biller.Address.ZIP = ""
            \/ inv.Biller.Address.City = ""
    THEN Err("biller.address: street, zip and city are required", -1)
    ELSE IF inv.Recipient.Name = "" \/ inv.Recipient.VATID = <<>>
    THEN Err("recipient.name and recipient.vat_id are required", -1)
    ELSE IF ~validateVATID(inv.Recipient.VATID)
    THEN Err("recipient.vat_id: vat_id must be in format ATU followed by 8 digits (e.g., ATU13585627)", -1)
    ELSE IF inv.Recipient.Address.Street = "" \/ inv.Recipient.Address.ZIP = ""
            \/ inv.Recipient.Address.City = ""
    THEN Err("recipient.address: street, zip and city are required", -1)
    ELSE IF inv.Recipient.OrderID = ""
    THEN Err("recipient.order_id is required for B2G", -1)
    ELSE IF Len(inv.Items) = 0
    THEN Err("at least one line item is required", -1)
    ELSE IF validateItems(inv.Items, 0) # Nil
    THEN validateItems(inv.Items, 0)
    ELSE IF inv.Payment.IBAN = <<>> \/ inv.Payment.BIC = <<>>
    THEN Err("payment.iban and payment.bic are required", -1)
    ELSE IF ~validateIBAN(inv.Payment.IBAN)
    THEN Err("payment.iban: iban must be in Austrian format: AT followed by 20 digits (e.g., AT123400000000005678)", -1)
    ELSE IF ~validateBIC(inv.Payment.BIC)
    THEN Err("payment.bic: bic must be 8 or 11 characters (e.g., BKAUATWW)", -1)
    ELSE Nil

----------------------------------------------------------------------------
(* TransformToEbInterface.                                                 *)

\* taxCategoryFromRate with a code of its own for the reduced rates
taxCategoryFromRateReduced(rate) ==
    CASE rate = 0 -> "Z"
      [] rate \in {10, 13} -> "AA"
      [] rate = 20 -> "S"
      [] OTHER -> "S"

\* taxCategoryFromRate maps Austrian VAT rates to tax category codes
taxCategoryFromRate(rate) ==
    CASE rate = 0 -> "Z"
      [] rate \in {10, 13} -> "S"
      [] rate = 20 -> "S"
      [] OTHER -> "S"

\* getContactName that always answers the default
getContactNameDefault(provided, defaultName) == defaultName

\* getContactName returns the provided contact name or the default
getContactName(provided, defaultName) ==
    IF provided # "" THEN provided ELSE defaultName

composeEbAddress(name, a) ==
    [Name |-> name, Street |-> a.Street, Town |-> a.City, ZIP |-> a.ZIP,
     Country |-> [CountryCode |-> "AT", Name |-> "Oesterreich"]]

\* lineNetCts that leaves out the quantity
lineNetCtsUnit(li) == li.UnitPriceCents

\* lineNetCts := li.UnitPriceCents * li.Quantity
lineNetCts(li) == I64Mul(li.UnitPriceCents, li.Quantity)

\* taxCts at the standard rate whatever the line's rate
lineTaxCtsStandard(net, taxRate) ==
    Int64OfRounded(MathRound(FDiv100(FMulInt(FOfInt64(net), 20))))

\* taxCts := int64(math.Round(float64(lineNetCts) * taxRate / 100.0))
lineTaxCts(net, taxRate) ==
    Int64OfRounded(MathRound(FDiv100(FMulInt(FOfInt64(net), taxRate))))

\* the zero value a Go map yields for a missing key
ZeroBucket == [taxableCts |-> I64Zero, taxCts |-> I64Zero]
BucketAt(buckets, rate) ==
    IF rate \in DOMAIN buckets THEN buckets[rate] ELSE ZeroBucket

\* EbItemOf with 0-based position numbers
EbItemOfZeroBased(inv, i, net) ==
    LET li == inv.Items[i]
    IN  [Description |-> li.Description,
         Quantity    |-> [Unit |-> "C62", Value |-> FOfInt64(li.Quantity)],
         UnitPrice   |-> formatCentsAsDecimal(li.UnitPriceCents),
         InvoiceRecipientsOrderReference |->
             [OrderID |-> inv.Recipient.OrderID,
              OrderPositionNumber |-> NDigits(NOfInt(i - 1))],
         TaxItem |->
             [TaxableAmount |-> formatCentsAsDecimal(net),
              TaxPercent |-> [TaxCategoryCode |-> taxCategoryFromRate(li.TaxRate),
                              Value |-> li.TaxRate]],
         LineItemAmount |-> formatCentsAsDecimal(net)]

\* the EbItem built for the i-th line item (1-based)
EbItemOf(inv, i, net) ==
    LET li == inv.Items[i]
    IN  [Description |-> li.Description,
         Quantity    |-> [Unit |-> "C62", Value |-> FOfInt64(li.Quantity)],
         UnitPrice   |-> formatCentsAsDecimal(li.UnitPriceCents),
         InvoiceRecipientsOrderReference |->
             [OrderID |-> inv.Recipient.OrderID,
              OrderPositionNumber |-> NDigits(NOfInt(i))],
         TaxItem |->
             [TaxableAmount |-> formatCentsAsDecimal(net),
              TaxPercent |-> [TaxCategoryCode |-> taxCategoryFromRate(li.TaxRate),
                              Value |-> li.TaxRate]],
         LineItemAmount |-> formatCentsAsDecimal(net)]

\* one round of the loop over inv.Items: the locals after the n-th item,
\* from the locals before it (prev) and the round's lineNetCts and taxCts;
\* lines records each round's lineNetCts and taxCts
LoopBody(inv, n, prev, net, tax) ==
    [items       |-> Append(prev.items, EbItemOf(inv, n, net)),
     totalNetCts |-> I64Add(prev.totalNetCts, net),
     totalTaxCts |-> I64Add(prev.totalTaxCts, tax),
     taxBuckets  |->
         [r \in DOMAIN prev.taxBuckets \cup {inv.Items[n].TaxRate} |->
             IF r = inv.Items[n].TaxRate
             THEN [taxableCts |->
                       I64Add(BucketAt(prev.taxBuckets, r).taxableCts, net),
                   taxCts |-> I64Add(BucketAt(prev.taxBuckets, r).taxCts, tax)]
             ELSE prev.taxBuckets[r]],
     lines       |-> Append(prev.lines, [netCts |-> net, taxCts |-> tax])]

LoopRound(inv, n, prev, net) ==
    LoopBody(inv, n, prev, net, lineTaxCts(net, inv.Items[n].TaxRate))

\* the locals of TransformToEbInterface after the first n rounds of the loop
RECURSIVE ItemLoop(_, _)
ItemLoop(inv, n) ==
    IF n = 0
    THEN [items |-> <<>>, totalNetCts |-> I64Zero, totalTaxCts |-> I64Zero,
          taxBuckets |-> <<>>, lines |-> <<>>]
    ELSE LoopRound(inv, n, ItemLoop(inv, n - 1), lineNetCts(inv.Items[n]))

\* the orders in which "for rate, b := range taxBuckets" may visit the keys:
\* Go leaves the iteration order of a map unspecified
MapOrders(keys) ==
    {o \in [1..Cardinality(keys) -> keys] : {o[i] : i \in DOMAIN o} = keys}

\* taxSummary with the slice made at full length before the appends
\* (make([]EbTaxItemSummary, len(taxBuckets))): zero entries come first
taxSummaryPreallocated(taxBuckets, order) ==
    [k \in 1..Len(order) |->
        [TaxableAmount |-> <<>>,
         TaxPercent    |-> [TaxCategoryCode |-> "", Value |-> 0],
         TaxAmount     |-> <<>>]]
    \o [k \in 1..Len(order) |->
        [TaxableAmount |-> formatCentsAsDecimal(taxBuckets[order[k]].taxableCts),
         TaxPercent    |-> [TaxCategoryCode |-> taxCategoryFromRate(order[k]),
                            Value |-> order[k]],
         TaxAmount     |-> formatCentsAsDecimal(taxBuckets[order[k]].taxCts)]]

\* summary: one EbTaxItemSummary per map entry, in the order of the iteration
taxSummary(taxBuckets, order) ==
    [k \in 1..Len(order) |->
        [TaxableAmount |-> formatCentsAsDecimal(taxBuckets[order[k]].taxableCts),
         TaxPercent    |-> [TaxCategoryCode |-> taxCategoryFromRate(order[k]),
                            Value |-> order[k]],
         TaxAmount     |-> formatCentsAsDecimal(taxBuckets[order[k]].taxCts)]]

NoDoc == [none |-> TRUE]

\* the document composed from the request, the locals after the loop, the
\* summary and totalGrossCts
ComposeDocument(inv, items, summary, totalGrossCts) ==
    [GeneratingSystem |-> "austrian-invoice-microservice",
     DocumentType     |-> "Invoice",
     InvoiceCurrency  |-> "EUR",
     Language         |-> "de",
     InvoiceNumber    |-> inv.InvoiceNumber,
     InvoiceDate      |-> inv.InvoiceDate,
     Delivery |->
       [Date    |-> inv.InvoiceDate,
        Address |-> composeEbAddress(inv.Biller.Name, inv.Biller.Address),
        Contact |-> [Name  |-> getContactName(inv.Biller.ContactName,
                                              "Billing Department"),
                     Email |-> inv.Biller.Email]],
     Biller |->
       [VATID   |-> inv.Biller.VATID,
        Address |-> composeEbAddress(inv.Biller.Name, inv.Biller.Address),
        Contact |-> [Name  |-> getContactName(inv.Biller.ContactName,
                                              "Billing Department"),
                     Email |-> inv.Biller.Email],
        InvoiceRecipientsBillerID |-> inv.Biller.BillerID],
     InvoiceRecipient |->
       [VATID          |-> inv.Recipient.VATID,
        OrderReference |-> [OrderID |-> inv.Recipient.OrderID],
        Address |-> composeEbAddress(inv.Recipient.Name, inv.Recipient.Address),
        Contact |-> [Name  |-> getContactName(inv.Recipient.ContactName,
                                              "Accounting"),
                     Email |-> inv.Recipient.Email]],
     Details |-> [ItemList |-> [Items |-> items]],
     Tax     |-> [TaxItems |-> summary],
     TotalGrossAmount |-> formatCentsAsDecimal(totalGrossCts),
     PayableAmount    |-> formatCentsAsDecimal(totalGrossCts),
     PaymentMethod |->
       [UniversalBankTransaction |->
         [BeneficiaryAccount |->
           [BIC  |-> inv.Payment.BIC,
            IBAN |-> inv.Payment.IBAN,
            BankAccountOwner |-> inv.Biller.Name]]]]

\* an element field of a struct: its XML name and whether the tag says
\* omitempty
Element(xmlName, omitempty) == [xml |-> xmlName, omitempty |-> omitempty]

\* the element fields of EbInterfaceInvoice, in the order of declaration
EbInterfaceInvoiceElements ==
    <<Element("InvoiceNumber", FALSE), Element("InvoiceDate", FALSE),
      Element("Delivery", TRUE), Element("Biller", FALSE),
      Element("InvoiceRecipient", FALSE), Element("Details", FALSE),
      Element("Tax", FALSE), Element("TotalGrossAmount", FALSE),
      Element("PayableAmount", FALSE), Element("PaymentMethod", FALSE)>>

\* EbBeneficiaryAccount with IBAN declared first
EbBeneficiaryAccountElementsIbanFirst ==
    <<Element("IBAN", FALSE), Element("BIC", FALSE),
      Element("BankAccountOwner", FALSE)>>

\* the element fields of EbBeneficiaryAccount, in the order of declaration
EbBeneficiaryAccountElements ==
    <<Element("BIC", FALSE), Element("IBAN", FALSE),
      Element("BankAccountOwner", FALSE)>>

\* the names of the child elements xml.MarshalIndent writes for a struct
\* value: the element fields in the order of declaration, without the
\* omitempty fields whose value is empty
RECURSIVE MarshalChildren(_, _)
MarshalChildren(elements, empty) ==
    IF elements = <<>> THEN <<>>
    ELSE IF Head(elements).omitempty /\ Head(elements).xml \in empty
    THEN MarshalChildren(Tail(elements), empty)
    ELSE <<Head(elements).xml>> \o MarshalChildren(Tail(elements), empty)

\* the part of TransformToEbInterface after the loop over inv.Items.  out is
\* the marshalled document; agg keeps the function's integer locals.
AfterLoop(inv, loop, order, marshalErr, totalGrossCts) ==
    [err |-> marshalErr,
     out |-> IF marshalErr THEN NoDoc
             ELSE ComposeDocument(inv, loop.items,
                                  taxSummary(loop.taxBuckets, order),
                                  totalGrossCts),
     agg |-> [lines         |-> loop.lines,
              taxBuckets    |-> loop.taxBuckets,
              totalNetCts   |-> loop.totalNetCts,
              totalTaxCts   |-> loop.totalTaxCts,
              totalGrossCts |-> totalGrossCts]]

SumTotals(inv, loop, order, marshalErr) ==
    AfterLoop(inv, loop, order, marshalErr,
              I64Add(loop.totalNetCts, loop.totalTaxCts))

\* TransformToEbInterface(inv) when the map iteration takes the given order
\* and xml.MarshalIndent succeeds unless marshalErr
TransformToEbInterface(inv, order, marshalErr) ==
    SumTotals(inv, ItemLoop(inv, Len(inv.Items)), order, marshalErr)

----------------------------------------------------------------------------
(* Free-tier metering, as far as generateHandler drives it.  customers is  *)
(* the Stripe customer list: each customer's metadata.                     *)

VARIABLES pc, req, resps, xmlFault, customers, month
\* the calls of the codec in progress and their stack frames (used by
\* CodecSpec below)
VARIABLES calls, frames
\* the two in-memory caches of the gateway, the clock, and what has been
\* observed of the gateway so far (used by RateSpec and AuthSpec below)
VARIABLES apiKeyCacheInstance, rateLimitCacheInstance, now, history
serviceVars == <<pc, req, resps, xmlFault, customers, month>>
codecVars == <<calls, frames>>
gatewayVars == <<apiKeyCacheInstance, rateLimitCacheInstance, now, history>>
vars == <<pc, req, resps, xmlFault, customers, month, calls, frames,
          apiKeyCacheInstance, rateLimitCacheInstance, now, history>>

FreeTierPrefix == <<"a", "t", "_", "t", "e", "s", "t", "_">>
NoCustomer == "none"
NoCount == -1

\* len(apiKey) > 7 && apiKey[:7] == "at_test_"
IsFreeTierKey(apiKey) ==
    Len(apiKey) > 7 /\ SubSeq(apiKey, 1, 7) = FreeTierPrefix

\* findCustomerByAPIKey: the first customer whose metadata[api_key] matches
findCustomerByAPIKey(custs, apiKey) ==
    LET found == {c \in DOMAIN custs : custs[c].api_key = apiKey}
    IN  IF found = {} THEN NoCustomer ELSE CHOOSE c \in found : TRUE

\* incrementFreeTierUsage after customer.Get has returned c: newCount, and
\* the customer list after customer.Update
updateUsage(custs, id, c, currentMonth) ==
    LET newCount == IF c.usage_month # currentMonth THEN 1
                    ELSE IF c.usage_count = NoCount THEN 1
                    ELSE c.usage_count + 1
    IN  [custs EXCEPT ![id].usage_count = newCount,
                      ![id].usage_month = currentMonth]

\* incrementFreeTierUsage: the customer list after customer.Get and
\* customer.Update both succeeded, with no other request in between
incrementFreeTierUsage(custs, id, currentMonth) ==
    updateUsage(custs, id, custs[id], currentMonth)

\* the customer list after the handler's "free tier" block; Stripe answers
\* the calls iff stripeUp
MeterUsage(custs, apiKey, currentMonth, stripeUp) ==
    IF IsFreeTierKey(apiKey)
    THEN LET cust == findCustomerByAPIKey(custs, apiKey)
         IN  IF stripeUp /\ cust # NoCustomer
             THEN incrementFreeTierUsage(custs, cust, currentMonth)
             ELSE custs
    ELSE custs

----------------------------------------------------------------------------
(* generateHandler.                                                        *)

StatusOK == 200
StatusBadRequest == 400
StatusInternalServerError == 500

NoAgg == [none |-> TRUE]

\* a response: HTTP status, error code and details (writeError), the XML
\* body; transformed tells whether TransformToEbInterface was invoked and
\* agg keeps its integer locals
Response(status, code, details, body, transformed, agg) ==
    [status |-> status, code |-> code, details |-> details, body |-> body,
     transformed |-> transformed, agg |-> agg]

\* the handler's answer to the result t of TransformToEbInterface
RespondTransform(t) ==
    IF t.err
    THEN Response(StatusInternalServerError, "INTERNAL_ERROR", Nil, NoDoc,
                  TRUE, t.agg)
    ELSE Response(StatusOK, "", Nil, t.out, TRUE, t.agg)

\* generateHandler without the return after the validation error
generateHandlerNoReturn(r, order, marshalErr) ==
    IF ~r.jsonOk
    THEN Response(StatusBadRequest, "INVALID_JSON", Nil, NoDoc, FALSE, NoAgg)
    ELSE RespondTransform(TransformToEbInterface(r.inv, order, marshalErr))

generateHandler(r, order, marshalErr) ==
    IF ~r.jsonOk
    THEN Response(StatusBadRequest, "INVALID_JSON", Nil, NoDoc, FALSE, NoAgg)
    ELSE IF validateInvoice(r.inv) # Nil
    THEN Response(StatusBadRequest, "VALIDATION_ERROR", validateInvoice(r.inv),
                  NoDoc, FALSE, NoAgg)
    ELSE RespondTransform(TransformToEbInterface(r.inv, order, marshalErr))

\* the iteration orders the handler's call of TransformToEbInterface may see
HandlerOrders(r) ==
    IF r.jsonOk /\ validateInvoice(r.inv) = Nil
    THEN MapOrders({r.inv.Items[i].TaxRate : i \in 1..Len(r.inv.Items)})
    ELSE {<<>>}

----------------------------------------------------------------------------
(* Requests.                                                               *)

MaxItems == 3
MaxFaults == 2
MaxCalls == 2

\* a line item; the tax rates of the requests are whole percents
Item(desc, qty, price, rate) ==
    [Description |-> desc, Quantity |-> qty, UnitPriceCents |-> price,
     TaxRate |-> rate]

ItemConsulting == Item("Consulting", I64OfInt(10), I64OfInt(12000), 20)
ItemWidget     == Item("Widget", I64OfInt(1), I64OfInt(10000), 20)
ItemBook       == Item("Book", I64OfInt(1), I64OfInt(10000), 0)
ItemSnack      == Item("Snack", I64OfInt(1), I64OfInt(5), 10)
ItemEstate     == Item("Estate", I64OfInt(1), NPow2(62), 20)
ItemFleet      == Item("Fleet", I64OfInt(2), NPow2(61), 20)
ItemBulk       == Item("Bulk", I64OfInt(2), NPow2(62), 10)
ItemNoQuantity    == Item("Free sample", I64OfInt(0), I64OfInt(100), 20)
ItemNoDescription == Item("", I64OfInt(1), I64OfInt(100), 20)
ItemNegativePrice == Item("Refund", I64OfInt(1), I64OfInt(-1), 20)
ItemBadRate       == Item("Luxury", I64OfInt(1), I64OfInt(100), 101)
ItemAllWrong      == Item("", I64OfInt(0), I64OfInt(-1), 101)

OrdinaryItems == {ItemConsulting, ItemWidget, ItemBook, ItemSnack}
ExtremeItems  == {ItemEstate, ItemFleet, ItemBulk}
InvalidItems  == {ItemWidget, ItemNoQuantity, ItemNoDescription,
                  ItemNegativePrice, ItemBadRate, ItemAllWrong}

\* the sequences of at most n distinct elements of S
Lists(S, n) ==
    UNION {{l \in [1..k -> S] : \A i, j \in 1..k : l[i] = l[j] => i = j} :
           k \in 0..n}

ItemLists ==
    Lists(OrdinaryItems, MaxItems) \cup Lists(ExtremeItems, MaxItems)
    \cup Lists(InvalidItems, MaxItems)

DateOk        == <<"2", "0", "2", "4", "-", "0", "1", "-", "1", "5">>
DateBad       == <<"2", "0", "2", "3", "-", "0", "2", "-", "2", "9">>
VatOk         == <<"A", "T", "U", "1", "3", "5", "8", "5", "6", "2", "7">>
VatNineDigits == <<"A", "T", "U", "1", "3", "5", "8", "5", "6", "2", "7", "0">>
IbanOk        == <<"A", "T", "6", "1", "1", "9", "0", "4", "3", "0", "0", "2", "3", "4", "5", "7", "3", "2", "0", "1">>
IbanBad       == <<"D", "E", "6", "1", "1", "9", "0", "4", "3", "0", "0", "2", "3", "4", "5", "7", "3", "2", "0", "1">>
BicOk         == <<"B", "K", "A", "U", "A", "T", "W", "W">>
BicBad        == <<"b", "k", "a", "u", "a", "t", "w", "w">>

AddressOk == [Street |-> "Ring 1", ZIP |-> "1010", City |-> "Wien"]

ValidInvoice(items) ==
    [InvoiceNumber |-> "INV-1",
     InvoiceDate   |-> DateOk,
     Biller    |-> [Name |-> "Biller GmbH", VATID |-> VatOk, BillerID |-> "B1",
                    Email |-> "", ContactName |-> "", Address |-> AddressOk],
     Recipient |-> [Name |-> "Amt", VATID |-> VatOk, OrderID |-> "PO-7",
                    Email |-> "", ContactName |-> "", Address |-> AddressOk],
     Items     |-> items,
     Payment   |-> [IBAN |-> IbanOk, BIC |-> BicOk]]

\* the zero value of InvoiceJSON
EmptyAddress == [Street |-> "", ZIP |-> "", City |-> ""]
EmptyInvoice ==
    [InvoiceNumber |-> "",
     InvoiceDate   |-> <<>>,
     Biller    |-> [Name |-> "", VATID |-> <<>>, BillerID |-> "",
                    Email |-> "", ContactName |-> "", Address |-> EmptyAddress],
     Recipient |-> [Name |-> "", VATID |-> <<>>, OrderID |-> "",
                    Email |-> "", ContactName |-> "", Address |-> EmptyAddress],
     Items     |-> <<>>,
     Payment   |-> [IBAN |-> <<>>, BIC |-> <<>>]]

\* the ways a header or payment field of a request can be wrong
Faults ==
    <<"invoice_number", "date_empty", "date_format",
      "biller_name", "biller_vat_empty", "biller_vat_format",
      "biller_street", "biller_zip", "biller_city",
      "recipient_name", "recipient_vat_empty", "recipient_vat_format",
      "recipient_street", "recipient_zip", "recipient_city", "order_id",
      "iban_empty", "iban_format", "bic_empty", "bic_format">>

WithFault(inv, f) ==
    CASE f = "invoice_number"       -> [inv EXCEPT !.InvoiceNumber = ""]
      [] f = "date_empty"           -> [inv EXCEPT !.InvoiceDate = <<>>]
      [] f = "date_format"          -> [inv EXCEPT !.InvoiceDate = DateBad]
      [] f = "biller_name"          -> [inv EXCEPT !.Biller.Name = ""]
      [] f = "biller_vat_empty"     -> [inv EXCEPT !.Biller.VATID = <<>>]
      [] f = "biller_vat_format"    -> [inv EXCEPT !.Biller.VATID = VatNineDigits]
      [] f = "biller_street"        -> [inv EXCEPT !.Biller.Address.Street = ""]
      [] f = "biller_zip"           -> [inv EXCEPT !.Biller.Address.ZIP = ""]
      [] f = "biller_city"          -> [inv EXCEPT !.Biller.Address.City = ""]
      [] f = "recipient_name"       -> [inv EXCEPT !.Recipient.Name = ""]
      [] f = "recipient_vat_empty"  -> [inv EXCEPT !.Recipient.VATID = <<>>]
      [] f = "recipient_vat_format" -> [inv EXCEPT !.Recipient.VATID = VatNineDigits]
      [] f = "recipient_street"     -> [inv EXCEPT !.Recipient.Address.Street = ""]
      [] f = "recipient_zip"        -> [inv EXCEPT !.Recipient.Address.ZIP = ""]
      [] f = "recipient_city"       -> [inv EXCEPT !.Recipient.Address.City = ""]
      [] f = "order_id"             -> [inv EXCEPT !.Recipient.OrderID = ""]
      [] f = "iban_empty"           -> [inv EXCEPT !.Payment.IBAN = <<>>]
      [] f = "iban_format"          -> [inv EXCEPT !.Payment.IBAN = IbanBad]
      [] f = "bic_empty"            -> [inv EXCEPT !.Payment.BIC = <<>>]
      [] f = "bic_format"           -> [inv EXCEPT !.Payment.BIC = BicBad]

\* inv with the faults Faults[i], i in F, applied in the order of Faults
RECURSIVE WithFaults(_, _, _)
WithFaults(inv, F, i) ==
    IF i > Len(Faults) THEN inv
    ELSE WithFaults(IF i \in F THEN WithFault(inv, Faults[i]) ELSE inv, F, i + 1)

\* the non-empty sets of at most n indices of Faults
RECURSIVE FaultSets(_)
FaultSets(n) ==
    IF n = 0 THEN {{}}
    ELSE FaultSets(n - 1)
         \cup {F \cup {i} : F \in FaultSets(n - 1), i \in DOMAIN Faults}

FaultItemLists == Lists({ItemWidget, ItemNoQuantity, ItemBadRate}, 1)

Invoices ==
    {ValidInvoice(items) : items \in ItemLists}
    \cup {WithFaults(ValidInvoice(items), F, 1) :
            items \in FaultItemLists, F \in FaultSets(MaxFaults) \ {{}}}

FreeKey == <<"a", "t", "_", "t", "e", "s", "t", "_", "1">>
LiveKey == <<"a", "t", "_", "l", "i", "v", "e", "_", "1">>
ApiKeys == {FreeKey, LiveKey}

\* the invoices the free-tier customer posts
FreeTierInvoices ==
    {ValidInvoice(<<ItemConsulting>>), ValidInvoice(<<ItemWidget, ItemBook>>),
     ValidInvoice(<<>>)}

\* the requests that reach generateHandler: a body that decodes into some
\* InvoiceJSON, or one that decodeJSON rejects
Requests ==
    {[apiKey |-> LiveKey, jsonOk |-> TRUE, inv |-> inv] : inv \in Invoices}
    \cup {[apiKey |-> FreeKey, jsonOk |-> TRUE, inv |-> inv] :
            inv \in FreeTierInvoices}
    \cup {[apiKey |-> k, jsonOk |-> FALSE, inv |-> EmptyInvoice] : k \in ApiKeys}

NoReq == [apiKey |-> <<>>, jsonOk |-> FALSE, inv |-> EmptyInvoice]

----------------------------------------------------------------------------
(* The service.                                                            *)

FirstMonth == 1

MaxProcs == 2
Procs == 1..MaxProcs

\* a goroutine that is not inside the codec, and the place of a stack frame
\* that does not exist
NoResult == [none |-> TRUE]
IdleCall == [pc |-> "idle", inv |-> EmptyInvoice, i |-> 0, out |-> NoResult]
NoFrame == [none |-> TRUE]

\* the keys generateAPIKey hands out later, and a key nobody was given
NewFreeKey == <<"a", "t", "_", "t", "e", "s", "t", "_", "2">>
NewLiveKey == <<"a", "t", "_", "l", "i", "v", "e", "_", "2">>
UnknownKey == <<"a", "t", "_", "l", "i", "v", "e", "_", "0">>
Keys == {FreeKey, LiveKey, NewFreeKey, NewLiveKey, UnknownKey}

\* the place of a key that a cache does not hold
NoEntry == [none |-> TRUE]

\* nothing has been observed yet
NoHistory ==
    [windows |-> [k \in Keys |-> NoEntry], issued |-> {FreeKey, LiveKey},
     revoked |-> {}, invoices |-> 0]

Init ==
    /\ calls = [c \in Procs |-> IdleCall]
    /\ frames = [c \in Procs |-> NoFrame]
    /\ apiKeyCacheInstance = [k \in Keys |-> NoEntry]
    /\ rateLimitCacheInstance = [k \in Keys |-> NoEntry]
    /\ now = 0
    /\ history = NoHistory
    /\ pc = "idle"
    /\ req = NoReq
    /\ resps = <<>>
    /\ xmlFault = FALSE
    /\ month = FirstMonth
    /\ customers =
         [c \in {"cus_free", "cus_paid"} |->
            IF c = "cus_free"
            THEN [api_key |-> FreeKey, tier |-> "free", usage_count |-> 0,
                  usage_month |-> FirstMonth, email |-> "free@example.at",
                  subscription |-> "none", pending |-> {}]
            ELSE [api_key |-> LiveKey, tier |-> "paid", usage_count |-> NoCount,
                  usage_month |-> 0, email |-> "paid@example.at",
                  subscription |-> "active", pending |-> {}]]

\* a request is posted to /generate; whether encoding/xml will fail on the
\* document is not in the handler's hands, and matters only to a request
\* that gets as far as xml.MarshalIndent
Receive ==
    /\ pc = "idle"
    /\ \E r \in Requests :
         /\ req' = r
         /\ xmlFault' \in
              IF r.jsonOk /\ validateInvoice(r.inv) = Nil
              THEN BOOLEAN ELSE {FALSE}
    /\ pc' = "open"
    /\ resps' = <<>>
    /\ UNCHANGED <<customers, month, calls, frames, gatewayVars>>

\* generateHandler serves the request; the same body may be posted again
GenerateHandler ==
    /\ pc = "open"
    /\ Len(resps) < MaxCalls
    /\ \E order \in HandlerOrders(req) :
         resps' = Append(resps, generateHandler(req, order, xmlFault))
    /\ \E stripeUp \in BOOLEAN :
         customers' = IF req.jsonOk /\ validateInvoice(req.inv) = Nil
                      THEN MeterUsage(customers, req.apiKey, month, stripeUp)
                      ELSE customers
    /\ UNCHANGED <<pc, req, xmlFault, month, calls, frames, gatewayVars>>

\* the client is done with this body
Close ==
    /\ pc = "open"
    /\ Len(resps) > 0
    /\ pc' = "idle"
    /\ req' = NoReq
    /\ resps' = <<>>
    /\ xmlFault' = FALSE
    /\ UNCHANGED <<customers, month, calls, frames, gatewayVars>>

Next == Receive \/ GenerateHandler \/ Close

Spec == Init /\ [][Next]_vars

----------------------------------------------------------------------------
(* The service on requests that differ in their identifiers, payment       *)
(* details and contact names only.                                         *)

VatSevenDigits == <<"A", "T", "U", "1", "3", "5", "8", "5", "6", "2">>
VatNoPrefix    == <<"D", "E", "U", "1", "3", "5", "8", "5", "6", "2", "7">>
VatIds == {VatOk, VatNineDigits, VatSevenDigits, VatNoPrefix}

IbanSpaced ==
    <<"A", "T", "6", "1", " ", "1", "9", "0", "4", " ", "3", "0", "0", "2", " ",
      "3", "4", "5", "7", " ", "3", "2", "0", "1">>
IbanTwentyDigits == IbanOk \o <<"0", "0">>
IbanSeventeenDigits == SubSeq(IbanOk, 1, 19)
Ibans == {IbanOk, IbanBad, IbanSpaced, IbanTwentyDigits, IbanSeventeenDigits}

BicEleven    == BicOk \o <<"X", "X", "X">>
BicNine      == BicOk \o <<"X">>
BicDigitTail == <<"B", "K", "A", "U", "A", "T", "2", "L">>
BicDigitBank == <<"B", "K", "A", "1", "A", "T", "W", "W">>
Bics == {BicOk, BicBad, BicEleven, BicNine, BicDigitTail, BicDigitBank}

ContactNames == {"", "Anna Huber"}

FieldInvoices ==
    {[ValidInvoice(<<ItemWidget>>) EXCEPT
         !.Biller.VATID = bv, !.Recipient.VATID = rv,
         !.Payment.IBAN = iban, !.Payment.BIC = bic,
         !.Biller.ContactName = bc, !.Recipient.ContactName = rc] :
     bv \in VatIds, rv \in VatIds, iban \in Ibans, bic \in Bics,
     bc \in ContactNames, rc \in ContactNames}

FieldRequests ==
    {[apiKey |-> LiveKey, jsonOk |-> TRUE, inv |-> inv] : inv \in FieldInvoices}

\* a request of FieldRequests is posted to /generate
ReceiveField ==
    /\ pc = "idle"
    /\ \E r \in FieldRequests :
         /\ req' = r
         /\ xmlFault' \in
              IF r.jsonOk /\ validateInvoice(r.inv) = Nil
              THEN BOOLEAN ELSE {FALSE}
    /\ pc' = "open"
    /\ resps' = <<>>
    /\ UNCHANGED <<customers, month, calls, frames, gatewayVars>>

FieldNext == ReceiveField \/ GenerateHandler \/ Close

FieldSpec == Init /\ [][FieldNext]_vars

----------------------------------------------------------------------------
(* The codec under concurrent callers: each goroutine runs validateInvoice *)
(* and then TransformToEbInterface, one step at a time.  The locals of     *)
(* TransformToEbInterface (items, totalNetCts, totalTaxCts, taxBuckets)    *)
(* live in the stack frame of the call.                                    *)

CodecInvoices ==
    {ValidInvoice(items) :
        items \in {<<>>, <<ItemWidget>>, <<ItemWidget, ItemBook>>,
                   <<ItemBook, ItemSnack>>}}

\* package-level accumulators: one frame for every call
FrameOfShared(c) == 1

\* the frame that holds the locals of call c: its own
FrameOf(c) == c

\* goroutine c enters the codec with some request
Call(c) ==
    /\ calls[c].pc = "idle"
    /\ \E inv \in CodecInvoices :
         calls' = [calls EXCEPT ![c] =
                      [pc |-> "validate", inv |-> inv, i |-> 0, out |-> NoResult]]
    /\ UNCHANGED <<frames, serviceVars, gatewayVars>>

\* validateInvoice returns; on success TransformToEbInterface is entered and
\* its locals are initialised
Validate(c) ==
    /\ calls[c].pc = "validate"
    /\ IF validateInvoice(calls[c].inv) # Nil
       THEN /\ calls' = [calls EXCEPT
                           ![c].pc = "done",
                           ![c].out = [err |-> validateInvoice(calls[c].inv),
                                       t |-> NoResult]]
            /\ UNCHANGED frames
       ELSE /\ calls' = [calls EXCEPT ![c].pc = "loop"]
            /\ frames' = [frames EXCEPT ![FrameOf(c)] = ItemLoop(calls[c].inv, 0)]
    /\ UNCHANGED <<serviceVars, gatewayVars>>

\* one round of the loop over inv.Items
LoopStep(c) ==
    /\ calls[c].pc = "loop"
    /\ calls[c].i < Len(calls[c].inv.Items)
    /\ frames' = [frames EXCEPT ![FrameOf(c)] =
                     LoopRound(calls[c].inv, calls[c].i + 1, frames[FrameOf(c)],
                               lineNetCts(calls[c].inv.Items[calls[c].i + 1]))]
    /\ calls' = [calls EXCEPT ![c].i = calls[c].i + 1]
    /\ UNCHANGED <<serviceVars, gatewayVars>>

\* the rest of TransformToEbInterface: the summary, the document, the return
Finish(c) ==
    /\ calls[c].pc = "loop"
    /\ calls[c].i = Len(calls[c].inv.Items)
    /\ \E order \in MapOrders(DOMAIN frames[FrameOf(c)].taxBuckets) :
         calls' = [calls EXCEPT
                     ![c].pc = "done",
                     ![c].out = [err |-> Nil,
                                 t |-> SumTotals(calls[c].inv, frames[FrameOf(c)],
                                                 order, FALSE)]]
    /\ frames' = [frames EXCEPT ![FrameOf(c)] = NoFrame]
    /\ UNCHANGED <<serviceVars, gatewayVars>>

\* the caller has taken the result
Return(c) ==
    /\ calls[c].pc = "done"
    /\ calls' = [calls EXCEPT ![c] = IdleCall]
    /\ UNCHANGED <<frames, serviceVars, gatewayVars>>

CodecNext ==
    \E c \in Procs :
        Call(c) \/ Validate(c) \/ LoopStep(c) \/ Finish(c) \/ Return(c)

CodecSpec == Init /\ [][CodecNext]_vars

----------------------------------------------------------------------------
(* RateLimitMiddleware.  The clock counts units of five minutes.           *)

Hour == 12
StatusTooManyRequests == 429

MaxHours == 2
MaxTestCalls == 2

\* checkAndIncrement with the comparison count > limit
checkAndIncrementOffByOne(keys, key, limit, window, t) ==
    IF keys[key] = NoEntry \/ t > keys[key].resetAt
    THEN [allowed |-> TRUE, remaining |-> limit - 1, resetAt |-> t + window,
          keys |-> [keys EXCEPT ![key] =
                      [count |-> 1, resetAt |-> t + window, limit |-> limit,
                       remaining |-> limit - 1]]]
    ELSE IF keys[key].count > limit
    THEN [allowed |-> FALSE, remaining |-> 0, resetAt |-> keys[key].resetAt,
          keys |-> keys]
    ELSE [allowed |-> TRUE, remaining |-> limit - (keys[key].count + 1),
          resetAt |-> keys[key].resetAt,
          keys |-> [keys EXCEPT ![key].count = keys[key].count + 1,
                                ![key].remaining = limit - (keys[key].count + 1)]]

\* checkAndIncrement at time t, under c.mu: the three results and the map
\* c.keys afterwards
checkAndIncrement(keys, key, limit, window, t) ==
    IF keys[key] = NoEntry \/ t > keys[key].resetAt
    THEN [allowed |-> TRUE, remaining |-> limit - 1, resetAt |-> t + window,
          keys |-> [keys EXCEPT ![key] =
                      [count |-> 1, resetAt |-> t + window, limit |-> limit,
                       remaining |-> limit - 1]]]
    ELSE IF keys[key].count >= limit
    THEN [allowed |-> FALSE, remaining |-> 0, resetAt |-> keys[key].resetAt,
          keys |-> keys]
    ELSE [allowed |-> TRUE, remaining |-> limit - (keys[key].count + 1),
          resetAt |-> keys[key].resetAt,
          keys |-> [keys EXCEPT ![key].count = keys[key].count + 1,
                                ![key].remaining = limit - (keys[key].count + 1)]]

FreeLimit == 10
PaidLimit == 1000

getRateLimit(tier) ==
    CASE tier = "free" -> FreeLimit
      [] tier = "paid" -> PaidLimit
      [] OTHER -> FreeLimit

\* the tier RateLimitMiddleware reads off the key
tierOfKey(apiKey) ==
    IF Len(apiKey) > 7 /\ SubSeq(apiKey, 1, 7) = FreeTierPrefix
    THEN "free" ELSE "paid"

NoHeaders == [none |-> TRUE]

\* what RateLimitMiddleware makes of the answer r of checkAndIncrement:
\* the three headers, and either the 429 or the call of next
RateLimited(apiKey, limit, r) ==
    [apiKey  |-> apiKey,
     headers |-> [Limit |-> limit, Remaining |-> r.remaining, Reset |-> r.resetAt],
     status  |-> IF r.allowed THEN 0 ELSE StatusTooManyRequests,
     passed  |-> r.allowed,
     keys    |-> r.keys]

\* RateLimitMiddleware at time t for a request with header X-API-KEY apiKey;
\* status 0 stands for the status that next writes
RateLimitMiddleware(keys, apiKey, t) ==
    IF apiKey = <<>>
    THEN [apiKey |-> apiKey, headers |-> NoHeaders, status |-> 0,
          passed |-> TRUE, keys |-> keys]
    ELSE RateLimited(apiKey, getRateLimit(tierOfKey(apiKey)),
                     checkAndIncrement(keys, apiKey,
                                       getRateLimit(tierOfKey(apiKey)), Hour, t))

\* the requests allowed so far in the window a response names by its
\* X-RateLimit-Reset header
Tally(windows, r) ==
    IF r.headers = NoHeaders THEN windows
    ELSE IF windows[r.apiKey] # NoEntry
            /\ windows[r.apiKey].resetAt = r.headers.Reset
    THEN [windows EXCEPT ![r.apiKey].allowed =
                            windows[r.apiKey].allowed + (IF r.passed THEN 1 ELSE 0)]
    ELSE [windows EXCEPT ![r.apiKey] =
                            [resetAt |-> r.headers.Reset,
                             limit   |-> r.headers.Limit,
                             allowed |-> IF r.passed THEN 1 ELSE 0]]

RateKeys == {LiveKey, FreeKey, <<>>}

\* the state after a request has gone through RateLimitMiddleware with
\* answer r
Limited(r) ==
    /\ rateLimitCacheInstance' = r.keys
    /\ resps' = <<[apiKey |-> r.apiKey, headers |-> r.headers,
                   status |-> r.status, passed |-> r.passed, at |-> now]>>
    /\ history' = [history EXCEPT !.windows = Tally(history.windows, r)]

\* a request to /generate passes RateLimitMiddleware
ServeRateLimited ==
    /\ \E apiKey \in RateKeys :
         /\ apiKey = FreeKey /\ history.windows[FreeKey] # NoEntry
               => history.windows[FreeKey].allowed < MaxTestCalls
         /\ Limited(RateLimitMiddleware(rateLimitCacheInstance, apiKey, now))
    /\ UNCHANGED <<pc, req, xmlFault, customers, month, codecVars,
                   apiKeyCacheInstance, now>>

\* the cleanup goroutine of the rate limit cache wakes up
RateCleanup ==
    /\ rateLimitCacheInstance' =
         [k \in Keys |->
            IF rateLimitCacheInstance[k] # NoEntry
               /\ now > rateLimitCacheInstance[k].resetAt
            THEN NoEntry ELSE rateLimitCacheInstance[k]]
    /\ rateLimitCacheInstance' # rateLimitCacheInstance
    /\ UNCHANGED <<serviceVars, codecVars, apiKeyCacheInstance, now, history>>

\* an hour passes
TickHour ==
    /\ now + Hour <= MaxHours * Hour
    /\ now' = now + Hour
    /\ UNCHANGED <<serviceVars, codecVars, apiKeyCacheInstance,
                   rateLimitCacheInstance, history>>

RateNext == ServeRateLimited \/ RateCleanup \/ TickHour

RateSpec == Init /\ [][RateNext]_vars

----------------------------------------------------------------------------
(* incrementFreeTierUsage called by concurrent requests of one customer:   *)
(* customer.Get and customer.Update are two calls to Stripe, and nothing   *)
(* keeps another request from running between them.                        *)

MaxIncrements == 3

\* goroutine p calls incrementFreeTierUsage: customer.Get returns
UsageGet(p) ==
    /\ calls[p].pc = "idle"
    /\ calls[p].i < MaxIncrements
    /\ calls' = [calls EXCEPT ![p].pc = "update"]
    /\ frames' = [frames EXCEPT ![p] = customers["cus_free"]]
    /\ UNCHANGED <<serviceVars, gatewayVars>>

\* customer.Update returns and so does incrementFreeTierUsage
UsageUpdate(p) ==
    /\ calls[p].pc = "update"
    /\ customers' = updateUsage(customers, "cus_free", frames[p], month)
    /\ calls' = [calls EXCEPT ![p].pc = "idle", ![p].i = calls[p].i + 1]
    /\ frames' = [frames EXCEPT ![p] = NoFrame]
    /\ UNCHANGED <<pc, req, resps, xmlFault, month, gatewayVars>>

UsageNext == \E p \in Procs : UsageGet(p) \/ UsageUpdate(p)

UsageSpec == Init /\ [][UsageNext]_vars

----------------------------------------------------------------------------
(* StripeAuthMiddleware in front of generateHandler, the Stripe webhook    *)
(* and the free-tier signup.  A customer of the model has at most one      *)
(* subscription; the metadata no code reads (subscription_status,          *)
(* last_payment_failed) is left out.  The requests are those that          *)
(* RateLimitMiddleware lets through.                                       *)

TTL == 1
FreeTierLimit == 5
StatusUnauthorized == 401
StatusForbidden == 403
StatusConflict == 409

MaxTicks == 2
MaxMonths == 2
MaxInvoices == 6

\* apiKeyCache.get at time t, without the test of expiresAt
apiKeyCacheGetAnyAge(keys, key, t) ==
    IF keys[key] = NoEntry THEN [valid |-> FALSE, customerID |-> ""]
    ELSE [valid |-> keys[key].valid, customerID |-> keys[key].customerID]

\* apiKeyCache.get at time t
apiKeyCacheGet(keys, key, t) ==
    IF keys[key] = NoEntry THEN [valid |-> FALSE, customerID |-> ""]
    ELSE IF t > keys[key].expiresAt THEN [valid |-> FALSE, customerID |-> ""]
    ELSE [valid |-> keys[key].valid, customerID |-> keys[key].customerID]

\* apiKeyCache.set at time t
apiKeyCacheSet(keys, key, valid, customerID, t) ==
    [keys EXCEPT ![key] = [valid |-> valid, expiresAt |-> t + TTL,
                           customerID |-> customerID]]

ActiveStatuses == {"active", "trialing", "past_due"}

\* checkSubscriptionStatus: hasActiveSubscription
checkSubscriptionStatus(custs, id) == custs[id].subscription \in ActiveStatuses

getCustomerTier(custs, id) ==
    IF custs[id].tier # "" THEN custs[id].tier ELSE "paid"

\* checkFreeTierUsage: allowed and usageCount
checkFreeTierUsage(custs, id, currentMonth) ==
    IF custs[id].usage_month # currentMonth
    THEN [allowed |-> TRUE, usageCount |-> 0]
    ELSE IF custs[id].usage_count = NoCount
    THEN [allowed |-> TRUE, usageCount |-> 0]
    ELSE [allowed |-> custs[id].usage_count < FreeTierLimit,
          usageCount |-> custs[id].usage_count]

\* what the middleware did: the status it wrote itself (0 if it called
\* next), whether it called next, and the cache afterwards
Authed(status, passed, keys) ==
    [status |-> status, passed |-> passed, keys |-> keys]

\* StripeAuthMiddleware after findCustomerByAPIKey has returned customer
\* cust for a free tier key
authFreeTier(keys, custs, apiKey, cust, t, currentMonth) ==
    IF getCustomerTier(custs, cust) # "free"
    THEN Authed(StatusUnauthorized, FALSE,
                apiKeyCacheSet(keys, apiKey, FALSE, cust, t))
    ELSE IF ~checkFreeTierUsage(custs, cust, currentMonth).allowed
    THEN Authed(StatusForbidden, FALSE,
                apiKeyCacheSet(keys, apiKey, FALSE, cust, t))
    ELSE Authed(0, TRUE, apiKeyCacheSet(keys, apiKey, TRUE, cust, t))

\* ... and for any other key
authPaidTier(keys, custs, apiKey, cust, t) ==
    IF ~checkSubscriptionStatus(custs, cust)
    THEN Authed(StatusUnauthorized, FALSE,
                apiKeyCacheSet(keys, apiKey, FALSE, cust, t))
    ELSE Authed(0, TRUE, apiKeyCacheSet(keys, apiKey, TRUE, cust, t))

\* StripeAuthMiddleware after the cache miss; Stripe answers iff stripeUp
authStripe(keys, custs, apiKey, cust, t, currentMonth, stripeUp) ==
    IF ~stripeUp THEN Authed(StatusInternalServerError, FALSE, keys)
    ELSE IF cust = NoCustomer
    THEN Authed(StatusUnauthorized, FALSE,
                apiKeyCacheSet(keys, apiKey, FALSE, "", t))
    ELSE IF IsFreeTierKey(apiKey)
    THEN authFreeTier(keys, custs, apiKey, cust, t, currentMonth)
    ELSE authPaidTier(keys, custs, apiKey, cust, t)

\* StripeAuthMiddleware at time t for a request with header X-API-KEY apiKey
StripeAuthMiddleware(keys, custs, apiKey, t, currentMonth, stripeUp) ==
    IF apiKey = <<>> THEN Authed(StatusUnauthorized, FALSE, keys)
    ELSE IF apiKeyCacheGet(keys, apiKey, t).valid THEN Authed(0, TRUE, keys)
    ELSE authStripe(keys, custs, apiKey, findCustomerByAPIKey(custs, apiKey),
                    t, currentMonth, stripeUp)

\* the header X-API-KEY of the requests: missing, a customer's key, or a key
\* nobody was given
AuthKeys == {<<>>, LiveKey, FreeKey, UnknownKey}

\* the bodies posted to /generate: an invoice with one line and one with none
AuthBodies == {ValidInvoice(<<ItemWidget>>), ValidInvoice(<<>>)}

\* the mark of the next response, so that two answers in a row differ
NextMark == IF resps = <<>> THEN 0 ELSE 1 - resps[1].n

\* the key belongs to a customer whose tier is "free"
FreeCustomerKey(custs, apiKey) ==
    /\ apiKey # <<>>
    /\ findCustomerByAPIKey(custs, apiKey) # NoCustomer
    /\ custs[findCustomerByAPIKey(custs, apiKey)].tier = "free"

\* the state after the middleware has answered auth to request r and, if it
\* called next, generateHandler has answered with status handled
Answered(auth, r, handled, stripeUp) ==
    /\ apiKeyCacheInstance' = auth.keys
    /\ resps' = <<[route |-> "/generate", apiKey |-> r.apiKey,
                   status |-> IF auth.passed THEN handled ELSE auth.status,
                   passed |-> auth.passed, stripeUp |-> stripeUp,
                   n |-> NextMark]>>
    /\ customers' = IF auth.passed /\ handled = StatusOK
                    THEN MeterUsage(customers, r.apiKey, month, stripeUp)
                    ELSE customers
    /\ history' = IF auth.passed /\ handled = StatusOK
                     /\ FreeCustomerKey(customers, r.apiKey)
                  THEN [history EXCEPT !.invoices = history.invoices + 1]
                  ELSE history

\* a request to /generate that RateLimitMiddleware has let through, with a
\* key of the set keys
GenerateWith(keys) ==
    /\ history.invoices < MaxInvoices
    /\ \E apiKey \in keys, inv \in AuthBodies, stripeUp \in BOOLEAN :
         Answered(StripeAuthMiddleware(apiKeyCacheInstance, customers, apiKey,
                                       now, month, stripeUp),
                  [jsonOk |-> TRUE, inv |-> inv, apiKey |-> apiKey],
                  generateHandler([jsonOk |-> TRUE, inv |-> inv, apiKey |-> apiKey],
                                  <<20>>, FALSE).status,
                  stripeUp)
    /\ UNCHANGED <<pc, req, xmlFault, month, codecVars, rateLimitCacheInstance,
                   now>>

Generate == GenerateWith(AuthKeys)

\* the key has the prefix generateAPIKey gives to the keys of its tier
HasKeyPrefix(k, isFreeTier) ==
    SubSeq(k, 1, Len(FreeTierPrefix)) = FreeTierPrefix <=> isFreeTier

\* the keys generateAPIKey can still return
FreshKeys(isFreeTier) ==
    {k \in Keys \ (history.issued \cup {UnknownKey}) :
        HasKeyPrefix(k, isFreeTier)}

\* somebody completes the Stripe Checkout: Stripe creates the customer and
\* the subscription and queues the event
StripeCheckout ==
    /\ "cus_new" \notin DOMAIN customers
    /\ customers' = customers @@
         ("cus_new" :> [api_key |-> <<>>, tier |-> "", usage_count |-> NoCount,
                        usage_month |-> 0, email |-> "new@example.at",
                        subscription |-> "active",
                        pending |-> {"checkout.session.completed"}])
    /\ resps' = <<>>
    /\ UNCHANGED <<pc, req, xmlFault, month, codecVars, gatewayVars>>

\* Stripe ends a subscription and queues the event
StripeCancel ==
    /\ \E c \in DOMAIN customers :
         /\ customers[c].subscription \in ActiveStatuses
         /\ customers' =
              [customers EXCEPT
                 ![c].subscription = "canceled",
                 ![c].pending = customers[c].pending
                                  \cup {"customer.subscription.deleted"}]
    /\ resps' = <<>>
    /\ UNCHANGED <<pc, req, xmlFault, month, codecVars, gatewayVars>>

\* a payment fails or arrives late: the subscription changes its status (the
\* events Stripe sends about it change only metadata that no code reads)
StripeUpdate ==
    /\ \E c \in DOMAIN customers :
         /\ customers[c].subscription \in ActiveStatuses
         /\ customers' =
              [customers EXCEPT
                 ![c].subscription =
                    IF customers[c].subscription = "active"
                    THEN "past_due" ELSE "active"]
    /\ resps' = <<>>
    /\ UNCHANGED <<pc, req, xmlFault, month, codecVars, gatewayVars>>

\* handleCheckoutCompleted with the generated key
handleCheckoutCompleted(custs, c, apiKey) ==
    [custs EXCEPT ![c].api_key = apiKey, ![c].tier = "paid"]

handleSubscriptionDeleted(custs, c) == [custs EXCEPT ![c].api_key = <<>>]

\* the customer list after handleWebhook has handled the event
Handled(custs, c, type, apiKey) ==
    CASE type = "checkout.session.completed" ->
            handleCheckoutCompleted(custs, c, apiKey)
      [] type = "customer.subscription.deleted" ->
            handleSubscriptionDeleted(custs, c)
      [] OTHER -> custs

\* Stripe posts a queued event to /webhook; an event whose signature
\* handleWebhook rejects stays queued
HandleWebhook ==
    /\ \E c \in DOMAIN customers, sigOk \in BOOLEAN :
       \E type \in customers[c].pending :
       \E apiKey \in IF type = "checkout.session.completed"
                     THEN FreshKeys(FALSE) ELSE {<<>>} :
         /\ customers' =
              IF sigOk
              THEN [Handled(customers, c, type, apiKey) EXCEPT
                       ![c].pending = customers[c].pending \ {type}]
              ELSE customers
         /\ history' =
              IF ~sigOk THEN history
              ELSE IF type = "checkout.session.completed"
              THEN [history EXCEPT !.issued = history.issued \cup {apiKey}]
              ELSE IF type = "customer.subscription.deleted"
              THEN [history EXCEPT !.revoked =
                       history.revoked \cup ({customers[c].api_key} \ {<<>>})]
              ELSE history
    /\ resps' = <<>>
    /\ UNCHANGED <<pc, req, xmlFault, month, codecVars, apiKeyCacheInstance,
                   rateLimitCacheInstance, now>>

Emails == {"free@example.at", "paid@example.at", "new@example.at"}

\* customer.List filtered by email: the first match
findCustomerByEmail(custs, email) ==
    LET found == {c \in DOMAIN custs : custs[c].email = email}
    IN  IF found = {} THEN NoCustomer ELSE CHOOSE c \in found : TRUE

\* the metadata handleFreeTierSignup writes
freeTierMetadata(c, apiKey, currentMonth) ==
    [c EXCEPT !.api_key = apiKey, !.tier = "free", !.usage_count = 0,
              !.usage_month = currentMonth]

\* handleFreeTierSignup after customer.List has returned existing; apiKey is
\* what generateAPIKey returns if it is called
handleFreeTierSignup(custs, email, existing, apiKey, currentMonth) ==
    IF existing # NoCustomer
    THEN IF custs[existing].api_key # <<>>
         THEN IF IsFreeTierKey(custs[existing].api_key)
              THEN [status |-> StatusOK, api_key |-> custs[existing].api_key,
                    generated |-> FALSE, customers |-> custs]
              ELSE [status |-> StatusConflict, api_key |-> <<>>,
                    generated |-> FALSE, customers |-> custs]
         ELSE [status |-> StatusOK, api_key |-> apiKey, generated |-> TRUE,
               customers |->
                 [custs EXCEPT ![existing] =
                     freeTierMetadata(custs[existing], apiKey, currentMonth)]]
    ELSE [status |-> StatusOK, api_key |-> apiKey, generated |-> TRUE,
          customers |-> custs @@
            ("cus_new" :>
               freeTierMetadata([api_key |-> <<>>, tier |-> "",
                                 usage_count |-> NoCount, usage_month |-> 0,
                                 email |-> email, subscription |-> "none",
                                 pending |-> {}],
                                apiKey, currentMonth))]

\* the state after the answer s of handleFreeTierSignup
SignedUp(email, s) ==
    /\ customers' = s.customers
    /\ resps' = <<[route |-> "/api-keys/free", email |-> email,
                   status |-> s.status, api_key |-> s.api_key,
                   n |-> NextMark]>>
    /\ history' = IF s.generated
                  THEN [history EXCEPT !.issued = history.issued \cup {s.api_key}]
                  ELSE history

\* a request to /api-keys/free
HandleFreeTierSignup ==
    /\ \E email \in Emails :
       \E apiKey \in IF FreshKeys(TRUE) = {} THEN {<<>>} ELSE FreshKeys(TRUE) :
         /\ SignedUp(email,
                     handleFreeTierSignup(customers, email,
                                          findCustomerByEmail(customers, email),
                                          apiKey, month))
         /\ history'.issued = history.issued \/ apiKey # <<>>
    /\ UNCHANGED <<pc, req, xmlFault, month, codecVars, apiKeyCacheInstance,
                   rateLimitCacheInstance, now>>

\* the cleanup goroutine of the API key cache wakes up
CacheCleanup ==
    /\ apiKeyCacheInstance' =
         [k \in Keys |->
            IF apiKeyCacheInstance[k] # NoEntry
               /\ now > apiKeyCacheInstance[k].expiresAt
            THEN NoEntry ELSE apiKeyCacheInstance[k]]
    /\ apiKeyCacheInstance' # apiKeyCacheInstance
    /\ resps' = <<>>
    /\ UNCHANGED <<pc, req, xmlFault, customers, month, codecVars,
                   rateLimitCacheInstance, now, history>>

\* five minutes pass
Tick ==
    /\ now < MaxTicks
    /\ now' = now + 1
    /\ resps' = <<>>
    /\ UNCHANGED <<pc, req, xmlFault, customers, month, codecVars,
                   apiKeyCacheInstance, rateLimitCacheInstance, history>>

\* the calendar month ends
NextMonth ==
    /\ month < MaxMonths
    /\ month' = month + 1
    /\ history' = [history EXCEPT !.invoices = 0]
    /\ resps' = <<>>
    /\ UNCHANGED <<pc, req, xmlFault, customers, codecVars,
                   apiKeyCacheInstance, rateLimitCacheInstance, now>>

AuthNext ==
    \/ Generate \/ HandleWebhook \/ StripeCancel \/ StripeUpdate
    \/ CacheCleanup \/ Tick

AuthSpec == Init /\ [][AuthNext]_vars

\* the keys of the free tier
FreeTierKeys == {FreeKey, NewFreeKey}

GenerateFree == GenerateWith(FreeTierKeys)

\* the free-tier signup, the checkout, and the requests with free-tier keys
SignupNext ==
    \/ HandleFreeTierSignup \/ GenerateFree \/ StripeCheckout
    \/ StripeCancel \/ HandleWebhook \/ NextMonth

SignupSpec == Init /\ [][SignupNext]_vars

----------------------------------------------------------------------------
(* Properties.  Amounts are compared as mathematical integers [neg, mag].  *)

ZOf(x) == [neg |-> I64Neg(x), mag |-> I64Abs(x)]
ZZero == [neg |-> FALSE, mag |-> <<>>]
ZAdd(a, b) ==
    IF a.neg = b.neg THEN [neg |-> a.neg, mag |-> NAdd(a.mag, b.mag)]
    ELSE IF NCmp(a.mag, b.mag) = 0 THEN ZZero
    ELSE IF NCmp(a.mag, b.mag) > 0
    THEN [neg |-> a.neg, mag |-> NSub(a.mag, b.mag)]
    ELSE [neg |-> b.neg, mag |-> NSub(b.mag, a.mag)]

\* the sum of the int64 values f[i], i in the index set I
RECURSIVE ZSum(_, _)
ZSum(f, I) ==
    IF I = {} THEN ZZero
    ELSE LET i == CHOOSE j \in I : TRUE
         IN  ZAdd(ZOf(f[i]), ZSum(f, I \ {i}))

\* n * rate / 100 rounded to the nearest integer, halves away from zero
RoundedPercent(n, rate) ==
    LET p == NMulSmall(n.mag, rate)
        q == NDivSmall(p, 100)
        m == IF NModSmall(p, 100) >= 50 THEN NAdd(q, NOfInt(1)) ELSE q
    IN  IF m = <<>> THEN ZZero ELSE [neg |-> n.neg, mag |-> m]

\* the digits of c div 100, a dot, and c mod 100 in two digits
ExactDecimal(c) ==
    NDigits(NDivSmall(c, 100)) \o <<".">> \o TwoDigits(NModSmall(c, 100))

\* the responses for which TransformToEbInterface ran, and those that carry
\* a document
Transformed == {i \in DOMAIN resps : resps[i].transformed}
Documents == {i \in DOMAIN resps : resps[i].status = StatusOK}

Nets(i) == [k \in DOMAIN resps[i].agg.lines |-> resps[i].agg.lines[k].netCts]
Taxes(i) == [k \in DOMAIN resps[i].agg.lines |-> resps[i].agg.lines[k].taxCts]
Taxables(i) ==
    [r \in DOMAIN resps[i].agg.taxBuckets |-> resps[i].agg.taxBuckets[r].taxableCts]
BucketTaxes(i) ==
    [r \in DOMAIN resps[i].agg.taxBuckets |-> resps[i].agg.taxBuckets[r].taxCts]
LinesAt(rate) == {k \in DOMAIN req.inv.Items : req.inv.Items[k].TaxRate = rate}
SummaryRates(i) ==
    [k \in DOMAIN resps[i].body.Tax.TaxItems |->
        resps[i].body.Tax.TaxItems[k].TaxPercent.Value]

\* C1: any two invocations of TransformToEbInterface on the identical
\* request return byte-identical output.
C1_Deterministic ==
    \A i, j \in Transformed : resps[i].body = resps[j].body

\* C2: in every produced document the tax summary entries appear in
\* strictly ascending order of tax rate.
C2_SummaryAscending ==
    \A i \in Documents :
        \A k \in 1..(Len(SummaryRates(i)) - 1) :
            SummaryRates(i)[k] < SummaryRates(i)[k + 1]

\* C3: the sum of the line nets plus the sum of the line taxes equals the
\* total gross amount, and the payable amount equals the total gross amount.
C3_Conservation ==
    /\ \A i \in Transformed :
          ZAdd(ZSum(Nets(i), DOMAIN Nets(i)), ZSum(Taxes(i), DOMAIN Taxes(i)))
              = ZOf(resps[i].agg.totalGrossCts)
    /\ \A i \in Documents :
          resps[i].body.PayableAmount = resps[i].body.TotalGrossAmount

\* C4: the bucket sums equal the line sums, and each bucket's taxable and
\* tax amount are the sums over exactly the lines carrying its rate.
C4_BucketSums ==
    \A i \in Transformed :
        /\ ZSum(Taxables(i), DOMAIN Taxables(i)) = ZSum(Nets(i), DOMAIN Nets(i))
        /\ ZSum(BucketTaxes(i), DOMAIN BucketTaxes(i))
               = ZSum(Taxes(i), DOMAIN Taxes(i))
        /\ \A r \in DOMAIN Taxables(i) :
              /\ ZOf(Taxables(i)[r]) = ZSum(Nets(i), LinesAt(r))
              /\ ZOf(BucketTaxes(i)[r]) = ZSum(Taxes(i), LinesAt(r))

\* C6: the line net is unit price times quantity and the line tax is
\* net*rate/100 rounded to the nearest integer, halves away from zero.
C6_LineAmounts ==
    \A i \in Transformed :
        \A k \in DOMAIN req.inv.Items :
            LET li == req.inv.Items[k]
            IN  /\ ZOf(Nets(i)[k])
                     = [neg |-> FALSE, mag |-> NMul(li.UnitPriceCents, li.Quantity)]
                /\ ZOf(Taxes(i)[k]) = RoundedPercent(ZOf(Nets(i)[k]), li.TaxRate)

\* C7: every monetary amount computed for an accepted request - line net,
\* line tax, bucket amounts, total gross - is non-negative.
C7_NonNegative ==
    \A i \in Transformed :
        /\ \A k \in DOMAIN Nets(i) : ~I64Neg(Nets(i)[k]) /\ ~I64Neg(Taxes(i)[k])
        /\ \A r \in DOMAIN Taxables(i) :
              ~I64Neg(Taxables(i)[r]) /\ ~I64Neg(BucketTaxes(i)[r])
        /\ ~I64Neg(resps[i].agg.totalGrossCts)

\* C8: for every non-negative amount c, formatCentsAsDecimal(c) is the
\* digits of c div 100, a dot, and c mod 100 in exactly two digits.
C8_TwoDecimals ==
    \A i \in Documents :
        /\ \A k \in DOMAIN req.inv.Items :
              LET li == req.inv.Items[k]
                  it == resps[i].body.Details.ItemList.Items[k]
              IN  /\ it.UnitPrice = ExactDecimal(li.UnitPriceCents)
                  /\ ~I64Neg(Nets(i)[k])
                       => it.LineItemAmount = ExactDecimal(Nets(i)[k])
        /\ ~I64Neg(resps[i].agg.totalGrossCts)
              => resps[i].body.TotalGrossAmount
                   = ExactDecimal(resps[i].agg.totalGrossCts)

\* C5: every produced document has exactly one tax summary entry per
\* distinct tax rate of the input line items: none missing, none twice,
\* none absent from the input.
C5_OneEntryPerRate ==
    \A i \in Documents :
        /\ {SummaryRates(i)[k] : k \in DOMAIN SummaryRates(i)}
               = {req.inv.Items[k].TaxRate : k \in DOMAIN req.inv.Items}
        /\ \A k, l \in DOMAIN SummaryRates(i) :
              SummaryRates(i)[k] = SummaryRates(i)[l] => k = l

\* a document for items of which two share a rate and one has another
C5_Witness ==
    \E i \in Documents :
        /\ Len(SummaryRates(i)) >= 2
        /\ Len(req.inv.Items) > Len(SummaryRates(i))

\* C9: generateHandler returns a document only for a request that
\* validateInvoice accepted; a validation failure is answered with 400
\* without invoking TransformToEbInterface and without a document; a
\* failure of TransformToEbInterface is answered with 500, never as a
\* validation error.
C9_HandlerOutcomes ==
    \A i \in DOMAIN resps :
        /\ resps[i].status = StatusOK
              => /\ req.jsonOk
                 /\ validateInvoice(req.inv) = Nil
                 /\ resps[i].body # NoDoc
        /\ (req.jsonOk /\ validateInvoice(req.inv) # Nil)
              => /\ resps[i].status = StatusBadRequest
                 /\ ~resps[i].transformed
                 /\ resps[i].body = NoDoc
        /\ (resps[i].transformed /\ xmlFault)
              => /\ resps[i].status = StatusInternalServerError
                 /\ resps[i].code # "VALIDATION_ERROR"
                 /\ resps[i].body = NoDoc

\* a request that failed validation has been answered
C9_Witness ==
    \E i \in DOMAIN resps :
        /\ resps[i].code = "VALIDATION_ERROR"
        /\ resps[i].status = StatusBadRequest

\* the rules of validateInvoice in the order the claim gives them, each with
\* the error it reports and whether inv violates it
ItemRules(items, k) ==
    LET d == items[k]
    IN  <<[err |-> Err("items[%d].quantity must be > 0", k - 1),
           violated |-> ~I64Less(I64Zero, d.Quantity)],
          [err |-> Err("items[%d].description is required", k - 1),
           violated |-> d.Description = ""],
          [err |-> Err("items[%d].unit_price_cents must be >= 0", k - 1),
           violated |-> I64Less(d.UnitPriceCents, I64Zero)],
          [err |-> Err("items[%d].tax_rate must be between 0 and 100", k - 1),
           violated |-> d.TaxRate < 0 \/ d.TaxRate > 100]>>

RECURSIVE AllItemRules(_, _)
AllItemRules(items, k) ==
    IF k > Len(items) THEN <<>>
    ELSE ItemRules(items, k) \o AllItemRules(items, k + 1)

ClaimedRules(inv) ==
    <<[err |-> Err("invoice_number is required", -1),
       violated |-> inv.InvoiceNumber = ""],
      [err |-> Err("invoice_date is required", -1),
       violated |-> inv.InvoiceDate = <<>>],
      [err |-> Err("invoice_date: date must be in YYYY-MM-DD format", -1),
       violated |-> ~validateDate(inv.InvoiceDate)],
      [err |-> Err("biller.name and biller.vat_id are required", -1),
       violated |-> inv.Biller.Name = "" \/ inv.Biller.VATID = <<>>],
      [err |-> Err("biller.vat_id: vat_id must be in format ATU followed by 8 digits (e.g., ATU13585627)", -1),
       violated |-> ~validateVATID(inv.Biller.VATID)],
      [err |-> Err("biller.address: street, zip and city are required", -1),
       violated |-> "" \in {inv.Biller.Address.Street, inv.Biller.Address.ZIP,
                            inv.Biller.Address.City}],
      [err |-> Err("recipient.name and recipient.vat_id are required", -1),
       violated |-> inv.Recipient.Name = "" \/ inv.Recipient.VATID = <<>>],
      [err |-> Err("recipient.vat_id: vat_id must be in format ATU followed by 8 digits (e.g., ATU13585627)", -1),
       violated |-> ~validateVATID(inv.Recipient.VATID)],
      [err |-> Err("recipient.address: street, zip and city are required", -1),
       violated |-> "" \in {inv.Recipient.Address.Street, inv.Recipient.Address.ZIP,
                            inv.Recipient.Address.City}],
      [err |-> Err("recipient.order_id is required for B2G", -1),
       violated |-> inv.Recipient.OrderID = ""],
      [err |-> Err("at least one line item is required", -1),
       violated |-> Len(inv.Items) = 0]>>
    \o AllItemRules(inv.Items, 1)
    \o <<[err |-> Err("payment.iban and payment.bic are required", -1),
          violated |-> inv.Payment.IBAN = <<>> \/ inv.Payment.BIC = <<>>],
         [err |-> Err("payment.iban: iban must be in Austrian format: AT followed by 20 digits (e.g., AT123400000000005678)", -1),
          violated |-> ~validateIBAN(inv.Payment.IBAN)],
         [err |-> Err("payment.bic: bic must be 8 or 11 characters (e.g., BKAUATWW)", -1),
          violated |-> ~validateBIC(inv.Payment.BIC)]>>

ViolatedRules(inv) ==
    {k \in DOMAIN ClaimedRules(inv) : ClaimedRules(inv)[k].violated}

\* C10: validateInvoice is fail-fast in a fixed order: a request is
\* rejected iff it violates a rule, and the one error returned is that of
\* the earliest violated rule in the sequence invoice number, invoice date
\* (non-empty, then YYYY-MM-DD), biller name/VAT presence, biller VAT
\* format, biller address, recipient name/VAT presence, recipient VAT
\* format, recipient address, order reference, at least one line item, per
\* line item in index order (quantity, description, unit price, tax rate),
\* IBAN/BIC presence, IBAN format, BIC format.
C10_FailFastOrder ==
    \A i \in DOMAIN resps :
        req.jsonOk =>
            LET rules == ClaimedRules(req.inv)
                bad   == ViolatedRules(req.inv)
            IN  IF bad = {}
                THEN resps[i].code # "VALIDATION_ERROR" /\ resps[i].details = Nil
                ELSE /\ resps[i].code = "VALIDATION_ERROR"
                     /\ \E k \in bad :
                          /\ resps[i].details = rules[k].err
                          /\ \A l \in bad : k <= l

\* a request that violates several rules, among them a line item rule, has
\* been answered
C10_Witness ==
    /\ req.jsonOk
    /\ Len(resps) > 0
    /\ Cardinality(ViolatedRules(req.inv)) >= 2
    /\ \E k \in ViolatedRules(req.inv) : ClaimedRules(req.inv)[k].err.idx >= 0

\* a line item that breaks one of the four line item rules
BadItem(d) ==
    \/ ~I64Less(I64Zero, d.Quantity)
    \/ d.Description = ""
    \/ I64Less(d.UnitPriceCents, I64Zero)
    \/ d.TaxRate < 0
    \/ d.TaxRate > 100

\* C11: every request that has no line item, or a line item with quantity
\* <= 0, an empty description, a unit price < 0 or a tax rate outside
\* [0,100], or an empty recipient order reference, is rejected by
\* validateInvoice: it is answered 400 VALIDATION_ERROR without a document.
C11_Rejections ==
    \A i \in DOMAIN resps :
        (/\ req.jsonOk
         /\ \/ Len(req.inv.Items) = 0
            \/ \E k \in DOMAIN req.inv.Items : BadItem(req.inv.Items[k])
            \/ req.inv.Recipient.OrderID = "")
        => /\ resps[i].status = StatusBadRequest
           /\ resps[i].code = "VALIDATION_ERROR"
           /\ resps[i].body = NoDoc

\* a request whose only flaw is a tax rate of 101 has been answered
C11_Witness ==
    /\ req.jsonOk
    /\ req.inv = ValidInvoice(<<ItemBadRate>>)
    /\ Len(resps) > 0

\* str is the given prefix followed by exactly n digits
PrefixAndDigits(str, prefix, n) ==
    /\ Len(str) = Len(prefix) + n
    /\ SubSeq(str, 1, Len(prefix)) = prefix
    /\ \A k \in (Len(prefix) + 1)..Len(str) : str[k] \in DigitChars

VatMessages ==
    {"biller.vat_id: vat_id must be in format ATU followed by 8 digits (e.g., ATU13585627)",
     "recipient.vat_id: vat_id must be in format ATU followed by 8 digits (e.g., ATU13585627)"}

\* C12: validateInvoice accepts a biller or recipient VAT identifier if and
\* only if it is 'ATU' followed by exactly 9 digits: a request with any
\* other VAT identifier is rejected, and no request is rejected by the VAT
\* format rule when both identifiers have that form.
C12_VatNineDigits ==
    \A i \in DOMAIN resps :
        req.jsonOk =>
            IF /\ PrefixAndDigits(req.inv.Biller.VATID, <<"A", "T", "U">>, 9)
               /\ PrefixAndDigits(req.inv.Recipient.VATID, <<"A", "T", "U">>, 9)
            THEN resps[i].details.msg \notin VatMessages
            ELSE resps[i].code = "VALIDATION_ERROR"

\* C13: a request is accepted only if payment.iban, exactly as supplied, is
\* 'AT' followed by exactly 20 digits, so the IBAN of every produced
\* document has that form.
C13_IbanTwentyDigits ==
    \A i \in Documents :
        /\ PrefixAndDigits(req.inv.Payment.IBAN, <<"A", "T">>, 20)
        /\ PrefixAndDigits(
               resps[i].body.PaymentMethod.UniversalBankTransaction
                   .BeneficiaryAccount.IBAN, <<"A", "T">>, 20)

BicMessage == "payment.bic: bic must be 8 or 11 characters (e.g., BKAUATWW)"

\* the response tells that the request passed, or failed, the BIC format rule
BicRuleAgrees(i, wellFormed) ==
    IF wellFormed
    THEN resps[i].details.msg # BicMessage
    ELSE resps[i].code = "VALIDATION_ERROR"

\* C14 as claimed: validateInvoice accepts payment.bic if and only if it has
\* exactly 8 or exactly 11 characters, each an uppercase letter or a digit.
C14_BicAlphanumeric ==
    \A i \in DOMAIN resps :
        req.jsonOk =>
            BicRuleAgrees(i,
                /\ Len(req.inv.Payment.BIC) \in {8, 11}
                /\ \A k \in DOMAIN req.inv.Payment.BIC :
                      req.inv.Payment.BIC[k] \in UpperChars \cup DigitChars)

\* C14 as amended: validateInvoice accepts payment.bic if and only if it has
\* exactly 8 or exactly 11 characters, the first six uppercase letters and
\* the others uppercase letters or digits.
C14_BicFormat ==
    \A i \in DOMAIN resps :
        req.jsonOk =>
            BicRuleAgrees(i,
                /\ Len(req.inv.Payment.BIC) \in {8, 11}
                /\ \A k \in DOMAIN req.inv.Payment.BIC :
                      req.inv.Payment.BIC[k] \in
                          IF k <= 6 THEN UpperChars
                          ELSE UpperChars \cup DigitChars)

\* a request whose BIC has a digit among its first six characters has been
\* rejected for its BIC
C14_Witness ==
    \E i \in DOMAIN resps :
        /\ req.inv.Payment.BIC = BicDigitBank
        /\ resps[i].details.msg = BicMessage

\* C17: the contact name of each party in the document is the supplied
\* contact name when it is non-empty, and otherwise 'Billing Department'
\* for the biller and the delivery block, 'Accounting' for the recipient.
C17_ContactNames ==
    \A i \in Documents :
        /\ resps[i].body.Biller.Contact.Name =
              IF req.inv.Biller.ContactName = "" THEN "Billing Department"
              ELSE req.inv.Biller.ContactName
        /\ resps[i].body.Delivery.Contact.Name = resps[i].body.Biller.Contact.Name
        /\ resps[i].body.InvoiceRecipient.Contact.Name =
              IF req.inv.Recipient.ContactName = "" THEN "Accounting"
              ELSE req.inv.Recipient.ContactName

\* a document for a request that names the biller's contact and leaves out
\* the recipient's
C17_Witness ==
    \E i \in Documents :
        /\ req.inv.Biller.ContactName # ""
        /\ req.inv.Recipient.ContactName = ""

\* the line items and the tax summary of the i-th response's document
OutItems(i) == resps[i].body.Details.ItemList.Items
OutSummary(i) == resps[i].body.Tax.TaxItems

\* C15: taxCategoryFromRate maps a rate of exactly 0 to 'Z' and every
\* non-zero rate to 'S'; the code of each line's tax info and of each tax
\* summary entry is the one derived from that entry's own rate.
C15_TaxCategory ==
    /\ \A rate \in 0..100 :
          taxCategoryFromRate(rate) = IF rate = 0 THEN "Z" ELSE "S"
    /\ \A i \in Documents :
          /\ \A k \in DOMAIN OutItems(i) :
                /\ OutItems(i)[k].TaxItem.TaxPercent.Value = req.inv.Items[k].TaxRate
                /\ OutItems(i)[k].TaxItem.TaxPercent.TaxCategoryCode =
                      IF req.inv.Items[k].TaxRate = 0 THEN "Z" ELSE "S"
          /\ \A k \in DOMAIN OutSummary(i) :
                OutSummary(i)[k].TaxPercent.TaxCategoryCode =
                    IF OutSummary(i)[k].TaxPercent.Value = 0 THEN "Z" ELSE "S"

\* a document with a summary entry at rate 0 and one at rate 10
C15_Witness ==
    \E i \in Documents :
        {0, 10} \subseteq {OutSummary(i)[k].TaxPercent.Value : k \in DOMAIN OutSummary(i)}

PositionTexts == <<<<"1">>, <<"2">>, <<"3">>, <<"4">>, <<"5">>, <<"6">>, <<"7">>,
                   <<"8">>, <<"9">>>>

\* C16: the produced line-item list has the length and the order of the
\* input items, and the i-th line (from 1) carries order position number i
\* and the recipient's order reference as its order ID.
C16_LinePositions ==
    \A i \in Documents :
        /\ Len(OutItems(i)) = Len(req.inv.Items)
        /\ \A k \in DOMAIN OutItems(i) :
              /\ OutItems(i)[k].Description = req.inv.Items[k].Description
              /\ OutItems(i)[k].InvoiceRecipientsOrderReference.OrderPositionNumber
                    = PositionTexts[k]
              /\ OutItems(i)[k].InvoiceRecipientsOrderReference.OrderID
                    = req.inv.Recipient.OrderID

\* a document with three line items
C16_Witness == \E i \in Documents : Len(OutItems(i)) = 3

\* the request's items are the given <<quantity, unit price, rate>> triples
HasItems(triples) ==
    /\ Len(req.inv.Items) = Len(triples)
    /\ \A k \in DOMAIN triples :
          /\ req.inv.Items[k].Quantity = I64OfInt(triples[k][1])
          /\ req.inv.Items[k].UnitPriceCents = I64OfInt(triples[k][2])
          /\ req.inv.Items[k].TaxRate = triples[k][3]

Amount(taxable, tax) ==
    [taxableCts |-> I64OfInt(taxable), taxCts |-> I64OfInt(tax)]

\* C18: one line item (quantity 10, unit price 12000, rate 20) yields line
\* net 120000, line tax 24000, the one bucket {20: 120000, 24000}, total
\* gross and payable 144000, serialized as 1200.00, 240.00 and 1440.00.
C18_SingleItem ==
    \A i \in Transformed :
        HasItems(<<<<10, 12000, 20>>>>) =>
            /\ resps[i].agg.lines =
                  <<[netCts |-> I64OfInt(120000), taxCts |-> I64OfInt(24000)]>>
            /\ DOMAIN resps[i].agg.taxBuckets = {20}
            /\ resps[i].agg.taxBuckets[20] = Amount(120000, 24000)
            /\ resps[i].agg.totalGrossCts = I64OfInt(144000)
            /\ i \in Documents =>
                  /\ OutItems(i)[1].LineItemAmount
                        = <<"1", "2", "0", "0", ".", "0", "0">>
                  /\ Len(OutSummary(i)) = 1
                  /\ OutSummary(i)[1].TaxableAmount
                        = <<"1", "2", "0", "0", ".", "0", "0">>
                  /\ OutSummary(i)[1].TaxPercent.Value = 20
                  /\ OutSummary(i)[1].TaxAmount = <<"2", "4", "0", ".", "0", "0">>
                  /\ resps[i].body.TotalGrossAmount
                        = <<"1", "4", "4", "0", ".", "0", "0">>
                  /\ resps[i].body.PayableAmount
                        = <<"1", "4", "4", "0", ".", "0", "0">>

\* the document for the single-item request
C18_Witness == HasItems(<<<<10, 12000, 20>>>>) /\ Documents # {}

\* C19: the two items (1, 10000, 20) and (1, 10000, 0) yield exactly the
\* two buckets {0: taxable 10000, tax 0} and {20: taxable 10000, tax 2000}
\* and total gross 22000.
C19_MultiRate ==
    \A i \in Transformed :
        (HasItems(<<<<1, 10000, 20>>, <<1, 10000, 0>>>>)
           \/ HasItems(<<<<1, 10000, 0>>, <<1, 10000, 20>>>>)) =>
            /\ DOMAIN resps[i].agg.taxBuckets = {0, 20}
            /\ resps[i].agg.taxBuckets[0] = Amount(10000, 0)
            /\ resps[i].agg.taxBuckets[20] = Amount(10000, 2000)
            /\ resps[i].agg.totalGrossCts = I64OfInt(22000)
            /\ i \in Documents =>
                  /\ Len(OutSummary(i)) = 2
                  /\ {<<OutSummary(i)[k].TaxPercent.Value,
                        OutSummary(i)[k].TaxableAmount,
                        OutSummary(i)[k].TaxAmount>> : k \in {1, 2}}
                      = {<<0, <<"1", "0", "0", ".", "0", "0">>,
                              <<"0", ".", "0", "0">>>>,
                         <<20, <<"1", "0", "0", ".", "0", "0">>,
                               <<"2", "0", ".", "0", "0">>>>}
                  /\ resps[i].body.TotalGrossAmount
                        = <<"2", "2", "0", ".", "0", "0">>

\* the document for the two-rate request
C19_Witness ==
    HasItems(<<<<1, 10000, 20>>, <<1, 10000, 0>>>>) /\ Documents # {}

\* the results a call on inv can return when it runs alone
AloneResults(inv) ==
    IF validateInvoice(inv) # Nil
    THEN {[err |-> validateInvoice(inv), t |-> NoResult]}
    ELSE {[err |-> Nil, t |-> TransformToEbInterface(inv, order, FALSE)] :
            order \in MapOrders({inv.Items[k].TaxRate : k \in DOMAIN inv.Items})}

\* C20: the codec is stateless: under any interleaving of concurrent
\* validateInvoice / TransformToEbInterface calls, each call returns a
\* result it returns when run alone, and the locals of a call are at every
\* step what the call alone makes them: no other call writes them and
\* nothing is left of an earlier call.
C20_Stateless ==
    \A c \in Procs :
        /\ calls[c].pc = "done" => calls[c].out \in AloneResults(calls[c].inv)
        /\ calls[c].pc = "loop" => frames[c] = ItemLoop(calls[c].inv, calls[c].i)
        /\ calls[c].pc # "loop" => frames[c] = NoFrame

\* one call has returned a document while another, on a different request,
\* is in the middle of its loop
C20_Witness ==
    \E c, d \in Procs :
        /\ calls[c].pc = "done"
        /\ calls[c].out.err = Nil
        /\ calls[d].pc = "loop"
        /\ calls[d].i > 0
        /\ calls[d].inv # calls[c].inv

\* the attribute fields of EbInterfaceInvoice
InvoiceAttributes ==
    {"GeneratingSystem", "DocumentType", "InvoiceCurrency", "Language"}

\* C21: every produced document lists its top-level children in the order
\* invoice number, invoice date, delivery block, biller, recipient, line-item
\* list, tax summary list, total gross amount, payable amount, payment
\* block, and the payment block's children in the order BIC, IBAN, account
\* owner name, the owner name being the biller's name, whatever the input.
C21_ElementOrder ==
    \A i \in Documents :
        /\ DOMAIN resps[i].body \ InvoiceAttributes
              = {EbInterfaceInvoiceElements[k].xml :
                    k \in DOMAIN EbInterfaceInvoiceElements}
        /\ MarshalChildren(EbInterfaceInvoiceElements, {})
              = <<"InvoiceNumber", "InvoiceDate", "Delivery", "Biller",
                  "InvoiceRecipient", "Details", "Tax", "TotalGrossAmount",
                  "PayableAmount", "PaymentMethod">>
        /\ DOMAIN resps[i].body.PaymentMethod = {"UniversalBankTransaction"}
        /\ DOMAIN resps[i].body.PaymentMethod.UniversalBankTransaction
              = {"BeneficiaryAccount"}
        /\ DOMAIN resps[i].body.PaymentMethod.UniversalBankTransaction
                     .BeneficiaryAccount
              = {EbBeneficiaryAccountElements[k].xml :
                    k \in DOMAIN EbBeneficiaryAccountElements}
        /\ MarshalChildren(EbBeneficiaryAccountElements, {})
              = <<"BIC", "IBAN", "BankAccountOwner">>
        /\ resps[i].body.PaymentMethod.UniversalBankTransaction
                     .BeneficiaryAccount.BankAccountOwner
              = req.inv.Biller.Name

\* a document for a request with two line items that is answered twice
C21_Witness ==
    /\ Len(resps) = 2
    /\ Documents = {1, 2}
    /\ Len(req.inv.Items) = 2

HasPrefix(str, prefix) ==
    Len(str) >= Len(prefix) /\ SubSeq(str, 1, Len(prefix)) = prefix

\* C22: RateLimitMiddleware limits a request whose key starts with
\* 'at_test_' to 10 requests per hour and a request with any other key to
\* 1000 requests per hour, and the X-RateLimit-Limit header carries that
\* limit.
C22_TierLimits ==
    \A i \in DOMAIN resps :
        resps[i].headers # NoHeaders =>
            resps[i].headers.Limit =
                IF HasPrefix(resps[i].apiKey, FreeTierPrefix) THEN 10 ELSE 1000

\* the entry of key k was written by a request (not by the cleanup)
Counted(k) ==
    /\ rateLimitCacheInstance'[k] # rateLimitCacheInstance[k]
    /\ rateLimitCacheInstance'[k] # NoEntry

\* C27: for every API key and every window, checkAndIncrement allows at most
\* limit requests: the stored count never exceeds limit, the returned
\* remaining value is limit minus the number of requests allowed so far in
\* the window and never negative, and the first request after resetAt has
\* passed is allowed and restarts the count at 1.
C27_WindowLimit ==
    /\ [](\A k \in Keys :
            /\ rateLimitCacheInstance[k] # NoEntry =>
                  rateLimitCacheInstance[k].count
                      <= rateLimitCacheInstance[k].limit
            /\ history.windows[k] # NoEntry =>
                  history.windows[k].allowed <= history.windows[k].limit)
    /\ [](\A i \in DOMAIN resps :
            resps[i].headers # NoHeaders =>
                /\ resps[i].headers.Remaining >= 0
                /\ resps[i].headers.Remaining
                      = resps[i].headers.Limit
                          - history.windows[resps[i].apiKey].allowed)
    /\ [][\A k \in Keys :
            /\ Counted(k)
            /\ \/ rateLimitCacheInstance[k] = NoEntry
               \/ now > rateLimitCacheInstance[k].resetAt
            => /\ rateLimitCacheInstance'[k].count = 1
               /\ resps'[1].apiKey = k
               /\ resps'[1].passed]_vars

\* a request is refused in a window that began after the first hour
C27_Witness ==
    /\ resps # <<>>
    /\ resps[1].status = StatusTooManyRequests
    /\ resps[1].headers.Reset > Hour
    /\ rateLimitCacheInstance[resps[1].apiKey].count
          = rateLimitCacheInstance[resps[1].apiKey].limit

RECURSIVE Returned(_)
\* the calls of incrementFreeTierUsage that goroutines 1..n have returned from
Returned(n) == IF n = 0 THEN 0 ELSE calls[n].i + Returned(n - 1)

C26_UsageCounted ==
    [][Len(resps') = Len(resps) + 1 /\ HasPrefix(req.apiKey, FreeTierPrefix)
         => customers'["cus_free"].usage_count
              = customers["cus_free"].usage_count
                  + (IF resps'[Len(resps')].status = StatusOK THEN 1 ELSE 0)]_vars

\* the step is a request to the given route, answered with resps'[1]
Request(route) ==
    /\ resps' # <<>>
    /\ resps' # resps
    /\ resps'[1].route = route

\* customer c passes the free-tier checks with key k: the key starts with
\* 'at_test_', the tier is 'free' and the month's usage is below the limit
FreeTierChecks(c, k) ==
    /\ HasPrefix(k, FreeTierPrefix)
    /\ customers[c].tier = "free"
    /\ \/ customers[c].usage_month # month
       \/ customers[c].usage_count < 5

\* the customers Stripe lists for key k
Holders(k) == {c \in DOMAIN customers : k # <<>> /\ customers[c].api_key = k}

\* C23: StripeAuthMiddleware passes to the handler, without any subscription
\* check, every request whose key starts with 'at_test_', whose Stripe
\* customer exists with tier 'free' and whose monthly usage is below the
\* free-tier limit.
C23_FreeTierPasses ==
    [][Request("/generate") /\ resps'[1].stripeUp
         /\ (\E c \in Holders(resps'[1].apiKey) :
                FreeTierChecks(c, resps'[1].apiKey))
         => resps'[1].passed]_vars

\* C25: once handleWebhook has processed a customer.subscription.deleted
\* event for a customer, no later /generate request with that customer's key
\* is passed through StripeAuthMiddleware to the handler.
C25_Revocation ==
    [][Request("/generate") /\ resps'[1].apiKey \in history.revoked
         => ~resps'[1].passed]_vars

\* the cache holds an entry for key k that is valid and not yet expired
CacheHit(k) ==
    /\ k # <<>>
    /\ apiKeyCacheInstance[k] # NoEntry
    /\ apiKeyCacheInstance[k].valid
    /\ now <= apiKeyCacheInstance[k].expiresAt

\* Stripe returns a customer for key k whose subscription is active,
\* trialing or past_due, or who passes the free-tier checks
StripeOk(k) ==
    \E c \in Holders(k) :
        \/ customers[c].subscription \in {"active", "trialing", "past_due"}
        \/ FreeTierChecks(c, k)

C24_MonthlyLimit ==
    /\ [](history.invoices <= 5)
    /\ [][Request("/generate")
            /\ (\E c \in Holders(resps'[1].apiKey) :
                   /\ customers[c].tier = "free"
                   /\ customers[c].usage_month = month
                   /\ customers[c].usage_count >= 5)
            => ~resps'[1].passed]_vars

\* C29: handleFreeTierSignup is idempotent per email and never overwrites a
\* paid key: a signup for an email whose customer already holds a free-tier
\* key returns that same key without generating or storing a new one, and a
\* signup for a customer holding a paid key is refused with 409 and leaves
\* the stored key unchanged.
C29_SignupIdempotent ==
    [][Request("/api-keys/free") =>
         \A c \in DOMAIN customers :
            customers[c].email = resps'[1].email /\ customers[c].api_key # <<>>
            => /\ customers' = customers
               /\ history'.issued = history.issued
               /\ IF HasPrefix(customers[c].api_key, FreeTierPrefix)
                  THEN /\ resps'[1].status = 200
                       /\ resps'[1].api_key = customers[c].api_key
                  ELSE resps'[1].status = 409]_vars

====
